---- MODULE Spec2Model ----
(***************************************************************************)
(* Model of the SLED decoding pilot (sidecars/sled/sled_decode.py): layer  *)
(* selection, loading of the calibration artifact, the two decode loops    *)
(* and the ridge calibrator, over a small file system that holds the       *)
(* calibration artifacts.                                                  *)
(*                                                                         *)
(* Optional values (Python None) are sequences of length at most one:      *)
(* <<>> is None and <<x>> is the value x.  Weight vectors are exact        *)
(* rationals [num, den]: entry i is num[i] / den, with den > 0.            *)
(***************************************************************************)
EXTENDS Integers, Sequences, FiniteSets, TLC

VARIABLES fs, sel, sled, base, fit, smp, cmb, srv, cli, dec, col, web

vars == <<fs, sel, sled, base, fit, smp, cmb, srv, cli, dec, col, web>>

-----------------------------------------------------------------------------
(* Bounds of the model *)

\* the model has 0..MaxLayers transformer layers
MaxLayers == 3
\* the requested k ranges over MinK..MaxK
MaxK == 4
\* max_new_tokens ranges over -1..MaxNewTokens
MaxNewTokens == 2

MinK == 0 - 1

None == <<>>
Some(x) == <<x>>

Max(a, b) == IF a >= b THEN a ELSE b
Min(a, b) == IF a <= b THEN a ELSE b
Abs(a) == IF a < 0 THEN 0 - a ELSE a

RECURSIVE SumSeq(_)
SumSeq(s) == IF s = <<>> THEN 0 ELSE s[1] + SumSeq(Tail(s))

\* the rational vector num/den (den # 0) in lowest terms with a positive denominator
Canon(num, den) ==
    LET cds == {d \in 1..Abs(den) :
                  den % d = 0 /\ \A i \in 1..Len(num) : num[i] % d = 0}
        g == CHOOSE d \in cds : \A e \in cds : e <= d
        sgn == IF den < 0 THEN 0 - 1 ELSE 1
    IN  [num |-> [i \in 1..Len(num) |-> (sgn * num[i]) \div g],
         den |-> (sgn * den) \div g]

\* list(range(a, b))
Range(a, b) == [i \in 1..Max(b - a, 0) |-> a + i - 1]

-----------------------------------------------------------------------------
(* Layer Selector *)

\* the strategies the server accepts, and every strategy a caller may pass
LayerModes == {"last_k", "all"}
Strategies == LayerModes \cup {"first_k"}

select_no_clamp(num_layers, layers, k) ==
    IF layers = "all"
    THEN Range(0, num_layers)
    ELSE Range(num_layers - Max(1, k), num_layers)

_select_layer_indices(num_layers, layers, k) ==
    IF layers = "all"
    THEN Range(0, num_layers)
    ELSE LET kk == Max(1, Min(k, num_layers))
         IN  Range(num_layers - kk, num_layers)

-----------------------------------------------------------------------------
(* Weights *)

\* torch.ones(n) / n
Uniform(n) == [num |-> [i \in 1..n |-> 1], den |-> IF n = 0 THEN 1 ELSE n]

\* 1000 * e^i, rounded: the depth scores 1..n before normalisation
ExpScaled(i) ==
    CASE i = 1 -> 2718
      [] i = 2 -> 7389
      [] i = 3 -> 20086
      [] i = 4 -> 54598
      [] i = 5 -> 148413
      [] OTHER -> 403429

depth_weights_reversed(n) ==
    LET e == [i \in 1..n |-> ExpScaled(n + 1 - i)]
    IN  [num |-> e, den |-> SumSeq(e)]

\* softmax over the depth scores 1..n: e^i over the sum of e^1 .. e^n
_depth_weights(n) ==
    LET e == [i \in 1..n |-> ExpScaled(i)]
    IN  IF n <= 1 THEN Uniform(n) ELSE [num |-> e, den |-> SumSeq(e)]

-----------------------------------------------------------------------------
(* The file system: the calibration artifacts *)

\* a path is its name followed by its extension, if it has one
Paths == {<<"w">>, <<"w", ".npz">>}

\* np.savez appends ".npz" to a file name that does not end with it
SavezPath(p) == IF Len(p) > 0 /\ p[Len(p)] = ".npz" THEN p ELSE Append(p, ".npz")

Missing == [kind |-> "missing", layer_weights |-> None, chosen |-> None]
Corrupt == [kind |-> "corrupt", layer_weights |-> None, chosen |-> None]
\* an archive with an optional "layer_weights" array and an optional "chosen" array
Npz(w, c) == [kind |-> "npz", layer_weights |-> w, chosen |-> c]

\* the paths that end with ".npz": where artifact files are put
ExtPaths == {p \in Paths : SavezPath(p) = p}

\* files that something other than the calibrator puts on the disk
ExtArtifacts ==
    {Corrupt,
     Npz(None, Some(<<0, 1>>)),
     Npz(Some(Canon(<<1, 3>>, 1)), None),
     Npz(Some(Canon(<<1, 3>>, 1)), Some(<<1>>)),
     Npz(Some(Canon(<<0, 0>>, 1)), Some(<<0, 1>>)),
     Npz(Some(Canon(<<0 - 1, 3>>, 1)), Some(<<0, 1>>))}

\* what generate_sled finds at weights_path when it resolves the weights: the file,
\* its weights against the n layers chosen, its stored layers against chosen
Unread == [file |-> "unread", weights |-> "none", layers |-> "absent"]
Found(n, weights_path, chosen, files) ==
    LET f == files[weights_path] IN
    [file |-> IF f.kind = "corrupt" THEN "unreadable" ELSE f.kind,
     weights |-> IF f.layer_weights = None THEN "none"
                 ELSE IF Len(f.layer_weights[1].num) = n THEN "ok" ELSE "wrong_count",
     layers |-> IF f.chosen = None THEN "absent"
                ELSE IF f.chosen[1] = chosen THEN "equal" ELSE "differ"]

load_ignore_layers(n, weights_path, chosen, files) ==
    LET f == files[weights_path] IN
    IF f.kind # "npz" \/ f.layer_weights = None THEN None
    ELSE LET w == f.layer_weights[1] IN
         IF Len(w.num) # n THEN None
         ELSE IF SumSeq(w.num) # 0
              THEN Some(Canon(w.num, SumSeq(w.num)))
              ELSE Some(Uniform(n))

\* None, or the weights of the artifact at weights_path normalised to sum 1
_load_learned_weights(n, weights_path, chosen, files) ==
    LET f == files[weights_path] IN
    IF f.kind = "missing" THEN None                    \* os.path.exists is false
    ELSE IF f.kind = "corrupt" THEN None               \* np.load raises
    ELSE IF f.layer_weights = None THEN None           \* no "layer_weights" key
    ELSE LET w == f.layer_weights[1]
             saved_layers == f.chosen
         IN  IF Len(w.num) # n THEN None               \* w.numel() != n
             ELSE IF /\ chosen # None
                     /\ saved_layers # None
                     /\ \/ Len(saved_layers[1]) # n
                        \/ \E i \in 1..Min(Len(saved_layers[1]), Len(chosen[1])) :
                              saved_layers[1][i] # chosen[1][i]
                  THEN None
                  ELSE IF SumSeq(w.num) # 0            \* w.sum().abs() > 0
                       THEN Some(Canon(w.num, SumSeq(w.num)))
                       ELSE Some(Uniform(n))

-----------------------------------------------------------------------------
(* Combiner *)

Weightings == {"uniform", "depth_softmax", "learned", "other"}

\* the weights _combine_layer_logits sums the n layers with (n >= 1);
\* one layer is passed through, which is the weight 1
combine_weights(n, weighting) ==
    IF n = 1 THEN Uniform(1)
    ELSE IF weighting = "depth_softmax" THEN _depth_weights(n)
    ELSE Uniform(n)

step_weights_reload(c) ==
    LET loaded == IF c.weighting_requested = "learned"
                  THEN _load_learned_weights(c.k_eff, c.weights_path, Some(c.chosen), fs)
                  ELSE None
    IN  IF loaded # None THEN loaded[1]
        ELSE combine_weights(c.k_eff, IF c.weighting_requested = "learned"
                                      THEN "uniform" ELSE c.weighting_requested)

\* the weights one step of generate_sled combines the per-layer logits with
step_weights(c) ==
    IF c.weighting_applied = "learned" /\ c.learned_w # None
    THEN c.learned_w[1]
    ELSE combine_weights(c.k_eff, c.weighting_applied)

-----------------------------------------------------------------------------
(* Inputs of the calls *)

Vocab == 0..1
\* tokenizer.eos_token_id: None or a token id
EosIds == {None, Some(0)}
LayerCounts == 0..MaxLayers
Ks == MinK..MaxK
TokenBudgets == (0 - 1)..MaxNewTokens

IdleSel == [pc |-> "idle", num_layers |-> 0, layers |-> "all", k |-> 0, out |-> <<>>]

IdleSled ==
    [pc |-> "idle", num_layers |-> 0, layers |-> "all", chosen |-> <<>>, k_eff |-> 0,
     weighting_requested |-> "uniform", weighting_applied |-> "uniform",
     learned_w |-> None, weights_path |-> <<>>, max_new_tokens |-> 0, eos |-> None,
     out_ids |-> <<>>, steps |-> 0, broke |-> FALSE, seen |-> Unread,
     projected |-> None, used |-> None, raised |-> "", meta |-> None,
     has_head |-> TRUE]

IdleBase ==
    [pc |-> "idle", max_new_tokens |-> 0, eos |-> None,
     out_ids |-> <<>>, steps |-> 0, broke |-> FALSE]

NoResult == [ok |-> FALSE, error |-> "", k |-> 0, out_path |-> <<>>,
             items_used |-> 0, steps_collected |-> 0]

IdleFit ==
    [pc |-> "idle", chosen |-> <<>>, dataset |-> None, max_items |-> 0,
     max_new_tokens |-> 0, out_path |-> <<>>, sol |-> <<>>, raised |-> "",
     wrote |-> None, rows |-> <<>>,
     result |-> NoResult, has_head |-> TRUE]

\* no call is in flight
Quiet == sel.pc = "idle" /\ sled.pc = "idle" /\ base.pc = "idle" /\ fit.pc = "idle"

-----------------------------------------------------------------------------
(* A call of _select_layer_indices on its own *)

Select(num_layers, layers, k) ==
    /\ Quiet
    /\ sel' = [pc |-> "done", num_layers |-> num_layers, layers |-> layers, k |-> k,
               out |-> _select_layer_indices(num_layers, layers, k)]
    /\ UNCHANGED <<fs, sled, base, fit>>
    /\ UNCHANGED <<smp, cmb, srv, cli, dec, col, web>>

\* the caller drops the result
SelectReturn ==
    /\ sel.pc = "done"
    /\ sel' = IdleSel
    /\ UNCHANGED <<fs, sled, base, fit>>
    /\ UNCHANGED <<smp, cmb, srv, cli, dec, col, web>>

-----------------------------------------------------------------------------
(* generate_sled *)

sled_meta_path_requested(c) == Some(c.weights_path)

\* meta["weights_path"]
sled_meta_path(c) ==
    IF c.weighting_applied = "learned" THEN Some(c.weights_path) ELSE None

sled_meta(c) ==
    [layers |-> c.layers,
     k |-> c.k_eff,
     chosen_indices |-> c.chosen,
     weighting_requested |-> c.weighting_requested,
     weighting_applied |-> c.weighting_applied,
     weights_info |->
        IF c.weighting_requested = "learned" /\ c.learned_w = None
        THEN "learned_missing_fallback_uniform"
        ELSE c.weighting_applied,
     weights_path |-> sled_meta_path(c)]

applied_as_requested(weighting, loaded) == weighting

\* weighting_applied, from the requested weighting and what the loader returned
applied_weighting(weighting, loaded) ==
    IF weighting = "learned" /\ loaded = None THEN "uniform" ELSE weighting

head_found_always(has_head) == "head"

\* _get_output_head on a model that exposes a usable head or none
_get_output_head(has_head) == IF has_head THEN "head" ELSE "ValueError"

\* the locals of generate_sled after its setup, on the disk files
sled_setup(num_layers, layers, k, weighting, weights_path, max_new_tokens, eos, has_head, files) ==
    LET chosen == _select_layer_indices(num_layers, layers, k)
        k_eff == Len(chosen)
        loaded == IF weighting = "learned"
                  THEN _load_learned_weights(k_eff, weights_path, Some(chosen), files)
                  ELSE None
    IN  IF _get_output_head(has_head) = "ValueError"
        THEN [IdleSled EXCEPT !.pc = "raised",        \* _get_output_head raises
                              !.raised = "ValueError",
                              !.has_head = has_head]
        ELSE [IdleSled EXCEPT
                !.pc = "loop",
                !.num_layers = num_layers,
                !.layers = layers,
                !.chosen = chosen,
                !.k_eff = k_eff,
                !.weighting_requested = weighting,
                !.weighting_applied = applied_weighting(weighting, loaded),
                !.learned_w = loaded,
                !.seen = IF weighting = "learned"
                         THEN Found(k_eff, weights_path, chosen, files)
                         ELSE Unread,
                !.weights_path = weights_path,
                !.max_new_tokens = max_new_tokens,
                !.eos = eos,
                !.has_head = has_head]

\* the setup of generate_sled, up to the first iteration of its loop
SledBegin(num_layers, layers, k, weighting, weights_path, max_new_tokens, eos, has_head) ==
    /\ Quiet
    /\ sled' = sled_setup(num_layers, layers, k, weighting, weights_path, max_new_tokens,
                          eos, has_head, fs)
    /\ UNCHANGED <<fs, sel, base, fit>>
    /\ UNCHANGED <<smp, cmb, srv, cli, dec, col, web>>

\* the test of both decode loops: next_id is the end-of-sequence id
is_eos_never(eos, next_id) == FALSE

is_eos(eos, next_id) == eos # None /\ next_id = eos[1]

\* one iteration of the loop of generate_sled
SledStep ==
    /\ sled.pc = "loop"
    /\ sled.steps < sled.max_new_tokens
    /\ ~sled.broke
    /\ \/ /\ sled.k_eff = 0                 \* torch.stack of no tensors raises
          /\ sled' = [sled EXCEPT !.pc = "raised", !.raised = "RuntimeError"]
       \/ /\ sled.k_eff > 0
          /\ \E next_id \in Vocab :
               sled' = [sled EXCEPT
                          !.out_ids = Append(@, next_id),
                          !.steps = @ + 1,
                          !.broke = is_eos(sled.eos, next_id),
                          !.projected = Some(sled.chosen),
                          !.used = Some(step_weights(sled))]
    /\ UNCHANGED <<fs, sel, base, fit>>
    /\ UNCHANGED <<smp, cmb, srv, cli, dec, col, web>>

\* after the loop: the text and the metadata are returned
SledFinish ==
    /\ sled.pc = "loop"
    /\ sled.steps >= sled.max_new_tokens \/ sled.broke
    /\ sled' = [sled EXCEPT !.pc = "done", !.meta = Some(sled_meta(sled))]
    /\ UNCHANGED <<fs, sel, base, fit>>
    /\ UNCHANGED <<smp, cmb, srv, cli, dec, col, web>>

\* the call has returned or raised: its locals are gone
SledReturn ==
    /\ sled.pc \in {"done", "raised"}
    /\ sled' = IdleSled
    /\ UNCHANGED <<fs, sel, base, fit>>
    /\ UNCHANGED <<smp, cmb, srv, cli, dec, col, web>>

-----------------------------------------------------------------------------
(* generate_baseline *)

BaseBegin(max_new_tokens, eos) ==
    /\ Quiet
    /\ base' = [IdleBase EXCEPT !.pc = "loop", !.max_new_tokens = max_new_tokens,
                                !.eos = eos]
    /\ UNCHANGED <<fs, sel, sled, fit>>
    /\ UNCHANGED <<smp, cmb, srv, cli, dec, col, web>>

BaseStep ==
    /\ base.pc = "loop"
    /\ base.steps < base.max_new_tokens
    /\ ~base.broke
    /\ \E next_id \in Vocab :
         base' = [base EXCEPT
                    !.out_ids = Append(@, next_id),
                    !.steps = @ + 1,
                    !.broke = is_eos(base.eos, next_id)]
    /\ UNCHANGED <<fs, sel, sled, fit>>
    /\ UNCHANGED <<smp, cmb, srv, cli, dec, col, web>>

BaseFinish ==
    /\ base.pc = "loop"
    /\ base.steps >= base.max_new_tokens \/ base.broke
    /\ base' = [base EXCEPT !.pc = "done"]
    /\ UNCHANGED <<fs, sel, sled, fit>>
    /\ UNCHANGED <<smp, cmb, srv, cli, dec, col, web>>

BaseReturn ==
    /\ base.pc = "done"
    /\ base' = IdleBase
    /\ UNCHANGED <<fs, sel, sled, fit>>
    /\ UNCHANGED <<smp, cmb, srv, cli, dec, col, web>>

-----------------------------------------------------------------------------
(* fit_layer_weights *)

\* how a line of the dataset is treated: the lines that are skipped, the line that
\* is JSON but no object, and the (prompt, target) pair with its target tokens
SkipKinds == {"blank", "badjson", "noprompt", "notarget"}
TargetLens == {0, 2}
Lines ==
    {[kind |-> kd, ntarget |-> 0] : kd \in SkipKinds \cup {"nonobject"}} \cup
    {[kind |-> "pair", ntarget |-> t] : t \in TargetLens}

\* the dataset file: None when it cannot be opened
DatasetLens == 0..2
Datasets == {None} \cup {Some(d) : d \in UNION {[1..n -> Lines] : n \in DatasetLens}}
MaxItemsVals == 1..2
FitBudgets == {0 - 1, 1, 3}

\* the rows _collect_step_features returns: len(range(ntarget)[:max_new_tokens])
Rows(ntarget, max_new_tokens) ==
    IF max_new_tokens >= 0
    THEN Min(ntarget, max_new_tokens)
    ELSE Max(ntarget + max_new_tokens, 0)

\* the loop over the lines, from line i on; done holds, for each line read so far,
\* the rows it contributed
RECURSIVE scan(_, _, _, _, _, _, _)
scan(lines, i, items_used, steps, max_items, max_new_tokens, done) ==
    IF i > Len(lines)
    THEN [raised |-> FALSE, items_used |-> items_used, steps |-> steps, rows |-> done]
    ELSE LET ln == lines[i]
             rows == Rows(ln.ntarget, max_new_tokens)
         IN  IF ln.kind \in SkipKinds
             THEN scan(lines, i + 1, items_used, steps, max_items, max_new_tokens,
                       Append(done, 0))
             ELSE IF ln.kind = "nonobject"             \* item.get raises AttributeError
             THEN [raised |-> TRUE, items_used |-> items_used, steps |-> steps,
                   rows |-> done]
             ELSE IF rows = 0                          \* X.size == 0
             THEN scan(lines, i + 1, items_used, steps, max_items, max_new_tokens,
                       Append(done, 0))
             ELSE IF items_used + 1 >= max_items
             THEN [raised |-> FALSE, items_used |-> items_used + 1, steps |-> steps + rows,
                   rows |-> Append(done, rows)]
             ELSE scan(lines, i + 1, items_used + 1, steps + rows, max_items,
                       max_new_tokens, Append(done, rows))

\* solutions of the ridge system for k layers: all negative, all positive,
\* and negative in the first layer only
RidgeSolutions(k) ==
    {[i \in 1..k |-> 0 - 1], [i \in 1..k |-> i],
     [i \in 1..k |-> IF i = 1 THEN 0 - 1 ELSE i]}

normalize_no_clip(w) ==
    IF SumSeq(w) = 0 THEN Uniform(Len(w)) ELSE Canon(w, SumSeq(w))

\* np.maximum(w, 0), then w / s, or uniform when s <= 0
normalize(w) ==
    LET c == [i \in 1..Len(w) |-> Max(w[i], 0)]
        s == SumSeq(c)
    IN  IF s <= 0 THEN Uniform(Len(w)) ELSE Canon(c, s)

\* the locals of fit_layer_weights after its setup
fit_begin(num_layers, layers, k, has_head, max_items, max_new_tokens, out_path) ==
    LET chosen == _select_layer_indices(num_layers, layers, k) IN
    IF chosen = <<>>
    THEN [IdleFit EXCEPT
            !.pc = "done",
            !.has_head = has_head,
            !.result = [NoResult EXCEPT
                          !.error = "No layers selected for calibration."]]
    ELSE IF _get_output_head(has_head) = "ValueError"
    THEN [IdleFit EXCEPT !.pc = "raised", !.raised = "ValueError",
                         !.has_head = has_head]
    ELSE [IdleFit EXCEPT
            !.pc = "open",
            !.has_head = has_head,
            !.chosen = chosen,
            !.max_items = max_items,
            !.max_new_tokens = max_new_tokens,
            !.out_path = out_path]

\* the setup of fit_layer_weights, up to the opening of the dataset
FitBegin(num_layers, layers, k, has_head, max_items, max_new_tokens, out_path) ==
    /\ Quiet
    /\ fit' = fit_begin(num_layers, layers, k, has_head, max_items, max_new_tokens, out_path)
    /\ UNCHANGED <<fs, sel, sled, base>>
    /\ UNCHANGED <<smp, cmb, srv, cli, dec, col, web>>

\* the rest of fit_layer_weights from the locals f: the dataset is read, the system
\* solved (solution sol) and the artifact written to the disk files
fit_run(f, dataset, sol, files) ==
    IF dataset = None
    THEN [fit |-> [f EXCEPT !.pc = "raised", !.raised = "OSError"], fs |-> files]
    ELSE LET r == scan(dataset[1], 1, 0, 0, f.max_items, f.max_new_tokens, <<>>) IN
         IF r.raised
         THEN [fit |-> [f EXCEPT !.pc = "raised", !.raised = "AttributeError",
                                 !.dataset = dataset],
               fs |-> files]
         ELSE IF r.items_used = 0                   \* not total_X
         THEN [fit |-> [f EXCEPT
                          !.pc = "done",
                          !.dataset = dataset,
                          !.result = [NoResult EXCEPT
                               !.error = "No usable calibration items found."]],
               fs |-> files]
         ELSE [fit |-> [f EXCEPT
                          !.pc = "done",
                          !.dataset = dataset,
                          !.sol = sol,
                          !.rows = r.rows,
                          !.wrote = Some(SavezPath(f.out_path)),
                          !.result = [ok |-> TRUE, error |-> "",
                                      k |-> Len(f.chosen),
                                      out_path |-> f.out_path,
                                      items_used |-> r.items_used,
                                      steps_collected |-> r.steps]],
               fs |-> [files EXCEPT ![SavezPath(f.out_path)] =
                             Npz(Some(normalize(sol)), Some(f.chosen))]]

\* the rest of fit_layer_weights: the dataset is read, the system solved and the
\* artifact written
FitRun(dataset, sol) ==
    /\ fit.pc = "open"
    /\ Len(sol) = Len(fit.chosen)
    /\ \E r \in {fit_run(fit, dataset, sol, fs)} :
         /\ fit' = r.fit
         /\ fs' = r.fs
    /\ UNCHANGED <<sel, sled, base>>
    /\ UNCHANGED <<smp, cmb, srv, cli, dec, col, web>>

FitReturn ==
    /\ fit.pc \in {"done", "raised"}
    /\ fit' = IdleFit
    /\ UNCHANGED <<fs, sel, sled, base>>
    /\ UNCHANGED <<smp, cmb, srv, cli, dec, col, web>>

-----------------------------------------------------------------------------
(* The environment puts a file on the disk, or removes one *)

ExtWrite(p, a) ==
    /\ fs' = [fs EXCEPT ![p] = a]
    /\ UNCHANGED <<sel, sled, base, fit>>
    /\ UNCHANGED <<smp, cmb, srv, cli, dec, col, web>>

ExtDelete(p) ==
    /\ fs[p] # Missing
    /\ fs' = [fs EXCEPT ![p] = Missing]
    /\ UNCHANGED <<sel, sled, base, fit>>
    /\ UNCHANGED <<smp, cmb, srv, cli, dec, col, web>>

-----------------------------------------------------------------------------
(* _nucleus_sample *)

\* the token ids of a small vocabulary and the logits over it
TokenIds == 0..2
LogitVals == 0..2
LogitVectors == [TokenIds -> LogitVals]

\* temperatures in millionths (1 is the 1e-6 below which max(1e-6, temperature)
\* acts) and top_p in twentieths
Temperatures == {0 - 1000000, 0, 1, 1000000, 2000000}
TopPs == {0 - 10, 0, 10, 19, 20, 30}
TopPDen == 20

argmax_zero(logits) == 0

\* torch.argmax: the first index of the largest value
argmax(logits) ==
    CHOOSE i \in DOMAIN logits :
        /\ \A j \in DOMAIN logits : logits[j] <= logits[i]
        /\ \A j \in DOMAIN logits : j < i => logits[j] < logits[i]

\* logits / max(1e-6, temperature), in halves
Scaled(logits, temperature) ==
    [i \in DOMAIN logits |-> (2 * 1000000 * logits[i]) \div Max(1, temperature)]

\* 1000 * exp(-d / 2), rounded; 0 beyond the range of float32 (the scaled logits of
\* the model differ by at most 4 halves, or by 2 * 10^6 and more)
ExpNegHalf(d) ==
    CASE d = 0 -> 1000
      [] d = 1 -> 607
      [] d = 2 -> 368
      [] d = 3 -> 223
      [] d = 4 -> 135
      [] OTHER -> 0

\* F.softmax, as weights over their sum (the largest logit is subtracted first)
softmax(h) ==
    LET top == h[argmax(h)] IN [i \in DOMAIN h |-> ExpNegHalf(top - h[i])]

\* the orders of the token ids
TokenOrders ==
    {o \in [1..Cardinality(TokenIds) -> TokenIds] :
        \A i, j \in DOMAIN o : i # j => o[i] # o[j]}

\* the orders torch.sort(descending=True) can return: ties come in any order
SortedOrders(probs) ==
    {o \in TokenOrders : \A i, j \in DOMAIN o : i < j => probs[o[i]] >= probs[o[j]]}

\* torch.cumsum of the sorted weights, at position i (1-based)
cumsum(probs, order, i) == SumSeq([j \in 1..i |-> probs[order[j]]])

\* cumsum > top_p at position i
cutoff(probs, order, top_p, i) ==
    cumsum(probs, order, i) * TopPDen > top_p * cumsum(probs, order, Len(order))

keep_len_exclusive(probs, order, top_p) ==
    LET cutoff_idx == {i \in 1..Len(order) : cutoff(probs, order, top_p, i)}
    IN  IF cutoff_idx = {} THEN Len(order)
        ELSE (CHOOSE i \in cutoff_idx : \A j \in cutoff_idx : i <= j) - 1

\* the length of keep: everything when nothing crosses top_p, else last + 1
keep_len(probs, order, top_p) ==
    LET cutoff_idx == {i \in 1..Len(order) : cutoff(probs, order, top_p, i)}
    IN  IF cutoff_idx = {} THEN Len(order)
        ELSE CHOOSE i \in cutoff_idx : \A j \in cutoff_idx : i <= j

IdleSmp(logits) ==
    [pc |-> "ready", logits |-> logits, top_p |-> 0, temperature |-> 0,
     probs |-> [i \in TokenIds |-> 0], order |-> <<>>, keep_idx |-> <<>>,
     out |-> None, raised |-> "", greedy_outs |-> {}, greedy_top_p |-> None]

\* a call of _nucleus_sample on the logits of smp
Sample(top_p, temperature) ==
    /\ IF temperature <= 0
       THEN LET tok == argmax(smp.logits) IN
            smp' = [IdleSmp(smp.logits) EXCEPT
                      !.pc = "called", !.top_p = top_p, !.temperature = temperature,
                      !.out = Some(tok),
                      !.greedy_outs = smp.greedy_outs \cup {tok},
                      !.greedy_top_p = IF smp.temperature <= 0 /\ smp.pc = "called"
                                       THEN Some(smp.top_p) ELSE None]
       ELSE \E probs \in {softmax(Scaled(smp.logits, temperature))} :
            \E order \in SortedOrders(probs) :
            \E n \in {keep_len(probs, order, top_p)} :
              LET keep_idx == SubSeq(order, 1, n)
                  \* torch.multinomial draws an entry of positive weight
                  draws == {i \in 1..n : probs[keep_idx[i]] > 0}
                  called == [IdleSmp(smp.logits) EXCEPT
                               !.pc = "called", !.top_p = top_p,
                               !.temperature = temperature, !.probs = probs,
                               !.order = order, !.keep_idx = keep_idx]
              IN  IF draws = {}
                  THEN smp' = [called EXCEPT !.raised = "RuntimeError"]
                  ELSE \E choice \in draws :
                         smp' = [called EXCEPT !.out = Some(keep_idx[choice])]
    /\ UNCHANGED <<fs, sel, sled, base, fit, cmb, srv, cli, dec, col, web>>

-----------------------------------------------------------------------------
(* _combine_layer_logits and the combination of one step of generate_sled *)

\* the logits of one layer over a vocabulary of two tokens
LayerLogits == {<<a, b>> : a \in 0..2, b \in {0, 2}}
\* the per-layer logits of one step: one vector per chosen layer
LogitStacks == UNION {[1..n -> LayerLogits] : n \in LayerCounts}

\* weights a call of generate_sled can have loaded for n layers
LearnedFor(n) ==
    {None, Some(Uniform(n)), Some([num |-> [i \in 1..n |-> i], den |-> (n * (n + 1)) \div 2])}

weighted_sum_no_weights(w, L) ==
    [num |-> [v \in 1..2 |-> SumSeq([i \in 1..Len(L) |-> L[i][v]])], den |-> 1]

\* (w * L).sum(dim=0): position v of the result is num[v] / den
weighted_sum(w, L) ==
    [num |-> [v \in 1..2 |-> SumSeq([i \in 1..Len(L) |-> w.num[i] * L[i][v]])],
     den |-> w.den]

\* _combine_layer_logits for n >= 1 layers
_combine_layer_logits(layer_logits, weighting) ==
    IF Len(layer_logits) = 1
    THEN [num |-> layer_logits[1], den |-> 1]
    ELSE weighted_sum(combine_weights(Len(layer_logits), weighting), layer_logits)

\* the logits one step of generate_sled samples from
step_logits(weighting_applied, learned_w, layer_logits) ==
    IF weighting_applied = "learned" /\ learned_w # None
    THEN weighted_sum(learned_w[1], layer_logits)
    ELSE _combine_layer_logits(layer_logits, weighting_applied)

IdleCmb(layer_logits, weighting, learned_w) ==
    [pc |-> "ready", layer_logits |-> layer_logits, weighting |-> weighting,
     learned_w |-> learned_w, w |-> None, out |-> None, raised |-> "", outs |-> {}]

\* a call of _combine_layer_logits on the inputs of cmb
Combine ==
    /\ cmb' =
         IF Len(cmb.layer_logits) = 0               \* torch.stack of no tensors raises
         THEN [cmb EXCEPT !.pc = "combined", !.raised = "RuntimeError"]
         ELSE LET out == _combine_layer_logits(cmb.layer_logits, cmb.weighting) IN
              [cmb EXCEPT
                 !.pc = "combined",
                 !.w = Some(combine_weights(Len(cmb.layer_logits), cmb.weighting)),
                 !.out = Some(out),
                 !.outs = IF cmb.pc = "combined" THEN @ \cup {out} ELSE {out}]
    /\ UNCHANGED <<fs, sel, sled, base, fit, smp, srv, cli, dec, col, web>>

\* the combination of one step of generate_sled with the inputs of cmb: the
\* weighting applied is the one requested unless "learned" found no weights
StepCombine ==
    /\ LET applied == applied_weighting(cmb.weighting, cmb.learned_w) IN
       cmb' =
         IF Len(cmb.layer_logits) = 0
         THEN [cmb EXCEPT !.pc = "stepped", !.raised = "RuntimeError"]
         ELSE LET out == step_logits(applied, cmb.learned_w, cmb.layer_logits) IN
              [cmb EXCEPT
                 !.pc = "stepped",
                 !.w = Some(IF applied = "learned" /\ cmb.learned_w # None
                            THEN cmb.learned_w[1]
                            ELSE combine_weights(Len(cmb.layer_logits), applied)),
                 !.out = Some(out),
                 !.outs = IF cmb.pc = "stepped" THEN @ \cup {out} ELSE {out}]
    /\ UNCHANGED <<fs, sel, sled, base, fit, smp, srv, cli, dec, col, web>>

-----------------------------------------------------------------------------
(* The server: the /generate handler of app.py *)

\* max_new_tokens of generate_sled and generate_baseline when gen_args has none
DefaultMaxNewTokens == 256

\* the weightings the server can be started with
ServerWeightings == {"uniform", "depth_softmax", "learned"}

\* STATE.cfg as main() sets it from the command line
ServerCfgs ==
    [layers : LayerModes, k : {1, 2}, weighting : ServerWeightings, weights_path : Paths]

\* STATE.model: its layers and whether it exposes a usable output head
ServerModels == [num_layers : {0, 2}, has_head : BOOLEAN]

\* the "gen_args" of a request body: absent, null or {} ("absent"), an object with
\* max_new_tokens ("budget"), an object with weights_path ("path"), or a JSON value
\* that is truthy and no object ("nonobject")
GenArgs ==
    {[kind |-> "absent", max_new_tokens |-> DefaultMaxNewTokens, weights_path |-> None],
     [kind |-> "budget", max_new_tokens |-> 1, weights_path |-> None],
     [kind |-> "path", max_new_tokens |-> DefaultMaxNewTokens,
      weights_path |-> Some(<<"w", ".npz">>)],
     [kind |-> "nonobject", max_new_tokens |-> DefaultMaxNewTokens, weights_path |-> None]}

\* the bodies of /generate requests: prompt "" is a missing or an empty prompt
GenerateBodies ==
    [mode : {"baseline", "sled"}, prompt : {"", "hi"}, gen_args : GenArgs,
     weights_path : {None, Some(<<"w">>)}]

NoResponse == [status |-> 0, ok |-> None, error |-> None, data |-> None]

\* STATE and the request being answered; route is the handler, fit_args what the
\* handler passed to fit_layer_weights, learned_from the out_path and the chosen
\* layers of the last successful calibration if it asked for "learned"
IdleSrv(cfg, model) ==
    [pc |-> "idle", cfg |-> cfg, model |-> model, req |-> None, cfg_before |-> cfg,
     invoked |-> "none", resp |-> NoResponse, route |-> "none", fit_args |-> None,
     learned_from |-> None]

\* an exception that leaves the handler: the framework answers 500 without a JSON body
Unhandled == [status |-> 500, ok |-> None, error |-> None, data |-> None]

\* JSONResponse({"ok": False, "error": error}, status_code=status)
Failure(status, error) ==
    [status |-> status, ok |-> Some(FALSE), error |-> Some(error), data |-> None]

\* JSONResponse({"ok": True, "data": data, "error": None})
Success(data) == [status |-> 200, ok |-> Some(TRUE), error |-> None, data |-> Some(data)]

\* `not prompt`
prompt_missing(prompt) == prompt = ""

\* the handler of POST /generate, from the request body to the response; the
\* handler does not await between reading the body and answering
Generate(body) ==
    LET gen_args == body.gen_args
        top == body.weights_path
        \* gen_args.pop("weights_path", None) runs when the body has no weights_path
        pops == top = None
        weights_override == IF top # None THEN top
                            ELSE IF gen_args.kind = "path" THEN gen_args.weights_path
                            ELSE None
        weights_path == IF weights_override # None THEN weights_override[1]
                        ELSE srv.cfg.weights_path
        \* what **gen_args cannot bind: no mapping, or weights_path left in it
        unbound == gen_args.kind = "nonobject" \/ (gen_args.kind = "path" /\ ~pops)
        c == sled_setup(srv.model.num_layers, srv.cfg.layers, srv.cfg.k, srv.cfg.weighting,
                        weights_path, gen_args.max_new_tokens, None, srv.model.has_head, fs)
        started == [srv EXCEPT !.pc = "replied", !.req = Some(body),
                               !.cfg_before = srv.cfg, !.invoked = "none",
                               !.resp = NoResponse, !.route = "generate",
                               !.fit_args = None]
    IN
    /\ srv.pc \in {"idle", "replied"}
    /\ srv' =
         IF pops /\ gen_args.kind = "nonobject"        \* .pop on a value that has none
         THEN [started EXCEPT !.resp = Unhandled]
         ELSE IF prompt_missing(body.prompt)
         THEN [started EXCEPT !.resp = Failure(400, "Missing prompt")]
         ELSE IF unbound
         THEN [started EXCEPT !.resp = Failure(500, "TypeError")]
         ELSE IF body.mode = "baseline"
         THEN [started EXCEPT
                 !.invoked = "baseline",
                 !.resp = Success([used_mode |-> "baseline",
                                   meta |-> [layers |-> None, weights_info |-> "n/a",
                                             weights_path |-> None]])]
         ELSE IF c.pc = "raised"
         THEN [started EXCEPT !.invoked = "sled", !.resp = Failure(500, c.raised)]
         ELSE IF c.k_eff = 0 /\ c.max_new_tokens > 0   \* the first step raises
         THEN [started EXCEPT !.invoked = "sled", !.resp = Failure(500, "RuntimeError")]
         ELSE [started EXCEPT
                 !.invoked = "sled",
                 !.resp = Success([used_mode |-> "sled", meta |-> sled_meta(c)])]
    /\ UNCHANGED <<fs, sel, sled, base, fit, smp, cmb, cli, dec, col, web>>

\* max_items and max_new_tokens of fit_layer_weights, which /calibrate leaves at
\* their defaults
DefaultMaxItems == 200
DefaultFitBudget == 32

\* the "k" of a /calibrate body: absent, an integer, or a value int() rejects
KArgs ==
    {[kind |-> "absent", val |-> 0], [kind |-> "int", val |-> 2], [kind |-> "bad", val |-> 0]}

\* the bodies of /calibrate requests; a key that is absent is None
CalibrateBodies ==
    [out_path : {None, Some(<<"w">>), Some(<<"w", ".npz">>)},
     layers : {None, Some("all")},
     k : KArgs,
     weighting : {None, Some("learned")}]

\* the dataset file at the "path" of the request: unreadable, without a usable
\* item, or with one item of two target tokens
CalDatasets == {None, Some(<<>>), Some(<<[kind |-> "pair", ntarget |-> 2]>>)}

\* solutions of the ridge system of a calibration request: all negative, all positive
CalSolutions(k) == {[i \in 1..k |-> 0 - 1], [i \in 1..k |-> i]}

\* JSONResponse({"ok": False, "data": None, "error": err}), status 200
Refused(error) ==
    [status |-> 200, ok |-> Some(FALSE), error |-> Some(error), data |-> None]

cfg_after_always(cfg, ok, layers, k, out_path, weighting_override) ==
    [layers |-> layers, k |-> k, weights_path |-> out_path,
     weighting |-> IF weighting_override # None THEN weighting_override[1]
                   ELSE cfg.weighting]

\* STATE.cfg after fit_layer_weights has returned: updated `if ok`
cfg_after(cfg, ok, layers, k, out_path, weighting_override) ==
    IF ~ok THEN cfg
    ELSE [layers |-> layers, k |-> k, weights_path |-> out_path,
          weighting |-> IF weighting_override # None THEN weighting_override[1]
                        ELSE cfg.weighting]

\* the handler of POST /calibrate, from the request body to the response, on the
\* dataset the path names and with the solution the ridge system has; the handler
\* does not await between reading the body and answering
Calibrate(body, dataset) ==
    LET out_path == IF body.out_path # None THEN body.out_path[1] ELSE srv.cfg.weights_path
        layers == IF body.layers # None THEN body.layers[1] ELSE srv.cfg.layers
        k == IF body.k.kind = "int" THEN body.k.val ELSE srv.cfg.k
        started == [srv EXCEPT !.pc = "replied", !.req = Some(body),
                               !.cfg_before = srv.cfg, !.invoked = "none",
                               !.resp = NoResponse, !.route = "calibrate",
                               !.fit_args = None]
        called == [started EXCEPT
                     !.invoked = "fit",
                     !.fit_args = Some([layers |-> layers, k |-> k, out_path |-> out_path])]
        b == fit_begin(srv.model.num_layers, layers, k, srv.model.has_head,
                       DefaultMaxItems, DefaultFitBudget, out_path)
    IN
    /\ srv.pc \in {"idle", "replied"}
    /\ IF body.k.kind = "bad"                         \* int() raises before the try
       THEN srv' = [started EXCEPT !.resp = Unhandled] /\ fs' = fs
       ELSE IF b.pc = "raised"
       THEN srv' = [called EXCEPT !.resp = Failure(500, b.raised)] /\ fs' = fs
       ELSE IF b.pc = "done"
       THEN /\ srv' = [called EXCEPT
                         !.cfg = cfg_after(srv.cfg, b.result.ok, layers, k, out_path,
                                           body.weighting),
                         !.resp = Refused(b.result.error)]
            /\ fs' = fs
       ELSE \E sol \in CalSolutions(Len(b.chosen)) :
            \E r \in {fit_run(b, dataset, sol, fs)} :
              /\ fs' = r.fs
              /\ srv' =
                   IF r.fit.pc = "raised"
                   THEN [called EXCEPT !.resp = Failure(500, r.fit.raised)]
                   ELSE IF ~r.fit.result.ok
                   THEN [called EXCEPT
                           !.cfg = cfg_after(srv.cfg, r.fit.result.ok, layers, k, out_path,
                                             body.weighting),
                           !.resp = Refused(r.fit.result.error)]
                   ELSE [called EXCEPT
                           !.cfg = cfg_after(srv.cfg, r.fit.result.ok, layers, k, out_path,
                                             body.weighting),
                           !.learned_from =
                               IF body.weighting = Some("learned")
                               THEN Some([out_path |-> out_path, chosen |-> b.chosen])
                               ELSE None,
                           !.resp = Success(r.fit.result)]
    /\ UNCHANGED <<sel, sled, base, fit, smp, cmb, cli, dec, col, web>>

-----------------------------------------------------------------------------
(* The client plugin: run of plugins/sled_client.py *)

ClientActions == {"health", "generate", "calibrate", "status"}

\* config/plugins.sled.yaml: absent, with host and port, with an integer timeout_s,
\* or with a timeout_s that is no integer
ClientConfigs == {"missing", "host_port", "timeout_s", "bad_timeout"}

\* the keyword arguments: JSON values, or a value json.dumps cannot serialise
ClientKwargs == {"plain", "unserializable"}

\* the JSON objects a server can reply with under status 200: each key absent
\* (None) or present
Replies ==
    [ok : {None, Some(TRUE), Some(FALSE)},
     data : {None, Some("payload")},
     error : {None, Some("Missing prompt")}]

\* what _post_json does: it raises (connection refused, timeout, HTTP error
\* status, body that is no JSON) or returns the decoded body, an object or not
Transports ==
    {[kind |-> kd, reply |-> [ok |-> None, data |-> None, error |-> None]] :
        kd \in {"refused", "timeout", "http_error", "non_json", "non_object"}}
    \cup {[kind |-> "object", reply |-> r] : r \in Replies}

\* str(e) of the exception _post_json raises
TransportError(kind) ==
    CASE kind = "refused" -> "<urlopen error [Errno 111] Connection refused>"
      [] kind = "timeout" -> "timed out"
      [] kind = "http_error" -> "HTTP Error 500: Internal Server Error"
      [] kind = "non_json" -> "Expecting value: line 1 column 1 (char 0)"
      [] OTHER -> "'list' object has no attribute 'get'"

IdleCli ==
    [pc |-> "idle", action |-> "health", config |-> "missing", kwargs |-> "plain",
     transport |-> "none", posted |-> FALSE, raised |-> "",
     result |-> [ok |-> FALSE, data |-> None, error |-> None]]

\* {"ok": False, "data": None, "error": error}
ClientFailure(error) == [ok |-> FALSE, data |-> None, error |-> Some(error)]

reply_data_always(ok, data) == data

\* data.get("data") if ok else None
reply_data(ok, data) == IF ok THEN data ELSE None

\* run(action, **kwargs): the whole call, with what the transport does
Run(action, config, kwargs, transport) ==
    LET r == transport.reply
        ok == r.ok = Some(TRUE)                        \* bool(data.get("ok"))
        called == [IdleCli EXCEPT !.pc = "returned", !.action = action,
                                  !.config = config, !.kwargs = kwargs]
        posted == [called EXCEPT !.posted = TRUE, !.transport = transport.kind]
    IN
    /\ cli' =
         IF config = "bad_timeout"                     \* int() raises ValueError
         THEN [called EXCEPT !.result = ClientFailure("invalid literal for int()")]
         ELSE IF action \notin {"health", "generate", "calibrate"}
         THEN [called EXCEPT !.result = ClientFailure("Unknown action")]
         ELSE IF action # "health" /\ kwargs = "unserializable"   \* json.dumps raises
         THEN [called EXCEPT !.result = ClientFailure("not JSON serializable")]
         ELSE IF transport.kind # "object"
         THEN [posted EXCEPT !.result = ClientFailure(TransportError(transport.kind))]
         ELSE IF action = "health"
         THEN [posted EXCEPT
                 !.result = [ok |-> ok,
                             data |-> IF ok THEN Some("reply") ELSE None,
                             error |-> IF ok THEN None ELSE Some("reply")]]
         ELSE [posted EXCEPT
                 !.result = [ok |-> ok,
                             data |-> reply_data(ok, r.data),
                             error |-> IF ok THEN None ELSE r.error]]
    /\ UNCHANGED <<fs, sel, sled, base, fit, smp, cmb, srv, dec, col, web>>

-----------------------------------------------------------------------------

(* The decode loops at the level of the cache: what every model call of a   *)
(* generate_baseline or generate_sled call is given, for two calls on the   *)
(* same model whose steps interleave                                        *)

CallIds == 1..2
\* tokenizer(prompt).input_ids: prompts of one and of two tokens
Prompts == {<<1>>, <<0, 1>>}
DecKinds == {"baseline", "sled"}
DecBudgets == 0..2
\* temperature: 0 is greedy, 1 samples
DecTemperatures == {0, 1}

\* the arg-max of the logits the model returns after it has consumed the ids ctx
\* (the ids its cache holds, followed by the ids of the input): the model is a
\* fixed function of what it is given
Oracle(ctx) == (SumSeq(ctx) + Len(ctx)) % 2

\* the ids the cache returned by model(input_ids, past_key_values=past) holds
model_call(input_ids, past) == (IF past = None THEN <<>> ELSE past[1]) \o input_ids

\* tokenizer.decode(ids, skip_special_tokens=True): the ids without the special one
decode(ids, eos) ==
    LET keep(x) == eos = None \/ x # eos[1] IN SelectSeq(ids, keep)

IdleDec ==
    [pc |-> "idle", kind |-> "baseline", prompt |-> <<>>, max_new_tokens |-> 0,
     eos |-> None, temperature |-> 0, out_ids |-> <<>>, past |-> None, fed |-> <<>>,
     steps |-> 0, broke |-> FALSE, text |-> None, meta |-> None]

step_from_start(kind, out_ids, past) == 1

\* the first position of out_ids a step submits: generate_baseline submits
\* out_ids[:, -1:] if past is not None else out_ids, generate_sled out_ids[:, -1:]
step_from(kind, out_ids, past) ==
    IF kind = "baseline" /\ past = None THEN 1 ELSE Len(out_ids)

\* the locals of a call when it enters its loop; generate_sled has made its dry
\* run on the whole prompt and keeps the cache of it
dec_begin(kind, prompt, max_new_tokens, eos, temperature) ==
    LET d == [IdleDec EXCEPT !.pc = "loop", !.kind = kind, !.prompt = prompt,
                             !.max_new_tokens = max_new_tokens, !.eos = eos,
                             !.temperature = temperature, !.out_ids = prompt]
    IN  IF kind = "baseline" THEN d
        ELSE [d EXCEPT !.past = Some(model_call(prompt, None)),
                       !.fed = <<[from |-> 1, input |-> prompt, past |-> None]>>]

\* the ids consumed by the model once the step of d that is given the cache past
\* has made its call
step_ctx(d, past) ==
    model_call(SubSeq(d.out_ids, step_from(d.kind, d.out_ids, past), Len(d.out_ids)), past)

\* one iteration of the loop of d, given the cache past and sampling next_id
after_step(d, past, next_id) ==
    LET from == step_from(d.kind, d.out_ids, past) IN
    [d EXCEPT !.past = Some(step_ctx(d, past)),
              !.fed = Append(@, [from |-> from,
                                 input |-> SubSeq(d.out_ids, from, Len(d.out_ids)),
                                 past |-> past]),
              !.out_ids = Append(@, next_id),
              !.steps = @ + 1,
              !.broke = is_eos(d.eos, next_id)]

\* what _nucleus_sample can return in that step
sampled(d, past) == IF d.temperature <= 0 THEN {Oracle(step_ctx(d, past))} ELSE Vocab

\* the loop is over
loop_over(d) == d.steps >= d.max_new_tokens \/ d.broke

\* after the loop: the completion is decoded; generate_sled adds its metadata
dec_finish(d) ==
    [d EXCEPT !.pc = "done",
              !.text = Some(decode(SubSeq(d.out_ids, Len(d.prompt) + 1, Len(d.out_ids)),
                                   d.eos)),
              !.meta = IF d.kind = "sled"
                       THEN Some(sled_meta(sled_setup(2, "last_k", 1, "uniform", <<"w">>,
                                                      d.max_new_tokens, d.eos, TRUE, fs)))
                       ELSE None]

\* the greedy call d run to its end with no other call in flight
RECURSIVE run_alone(_)
run_alone(d) ==
    IF loop_over(d) THEN dec_finish(d)
    ELSE run_alone(after_step(d, d.past, Oracle(step_ctx(d, d.past))))

past_shared(c) == dec[1].past

\* the cache a step of call c passes to the model: its own local past
past_of(c) == dec[c].past

DecBegin(c, kind, prompt, max_new_tokens, eos, temperature) ==
    /\ dec[c].pc = "idle"
    /\ dec' = [dec EXCEPT ![c] = dec_begin(kind, prompt, max_new_tokens, eos, temperature)]
    /\ UNCHANGED <<fs, sel, sled, base, fit, smp, cmb, srv, cli, col, web>>

DecStep(c) ==
    /\ dec[c].pc = "loop"
    /\ ~loop_over(dec[c])
    /\ \E next_id \in sampled(dec[c], past_of(c)) :
         dec' = [dec EXCEPT ![c] = after_step(dec[c], past_of(c), next_id)]
    /\ UNCHANGED <<fs, sel, sled, base, fit, smp, cmb, srv, cli, col, web>>

DecFinish(c) ==
    /\ dec[c].pc = "loop"
    /\ loop_over(dec[c])
    /\ dec' = [dec EXCEPT ![c] = dec_finish(dec[c])]
    /\ UNCHANGED <<fs, sel, sled, base, fit, smp, cmb, srv, cli, col, web>>

\* the call has returned: its locals are gone
DecReturn(c) ==
    /\ dec[c].pc = "done"
    /\ dec' = [dec EXCEPT ![c] = IdleDec]
    /\ UNCHANGED <<fs, sel, sled, base, fit, smp, cmb, srv, cli, col, web>>

-----------------------------------------------------------------------------
(* _collect_step_features: the forced steps over one dataset item *)

\* the ids of the target continuation: tokenizer(prompt + target).input_ids after
\* the ids of the prompt
TargetIds == {<<>>, <<1>>, <<1, 0>>, <<0, 0, 1>>}
ColBudgets == {0 - 1, 1, 2}
\* k_eff: the layers chosen by fit_layer_weights (at least one)
ColLayers == 1..2

\* ids[:, :max_new_tokens]
slice_to(ids, max_new_tokens) ==
    IF max_new_tokens >= 0
    THEN SubSeq(ids, 1, Min(Len(ids), max_new_tokens))
    ELSE SubSeq(ids, 1, Max(Len(ids) + max_new_tokens, 0))

IdleCol ==
    [pc |-> "idle", prompt |-> <<>>, target |-> <<>>, k_eff |-> 0, max_new_tokens |-> 0,
     target_ids |-> <<>>, out_ids |-> <<>>, past |-> None, t |-> 0,
     X_rows |-> <<>>, y_rows |-> <<>>]

forced_sampled(target_ids, t, ctx) == Oracle(ctx)

\* the id appended at step t (counted from 0): target_ids[:, t : t + 1]
forced(target_ids, t, ctx) == target_ids[t + 1]

ColBegin(prompt, target, k_eff, max_new_tokens) ==
    /\ col.pc = "idle"
    /\ col' = [IdleCol EXCEPT !.pc = "loop", !.prompt = prompt, !.target = target,
                              !.k_eff = k_eff, !.max_new_tokens = max_new_tokens,
                              !.target_ids = slice_to(target, max_new_tokens),
                              !.out_ids = prompt]
    /\ UNCHANGED <<fs, sel, sled, base, fit, smp, cmb, srv, cli, dec, web>>

\* one forced step: the model call, the row for the correct token, the append
ColStep ==
    /\ col.pc = "loop"
    /\ col.t < Len(col.target_ids)
    /\ LET from == IF col.past # None THEN Len(col.out_ids) ELSE 1
           ctx == model_call(SubSeq(col.out_ids, from, Len(col.out_ids)), col.past)
           correct_id == col.target_ids[col.t + 1]
       IN  col' = [col EXCEPT
                     !.past = Some(ctx),
                     !.X_rows = Append(@, [ctx |-> ctx, token |-> correct_id,
                                           layers |-> col.k_eff]),
                     !.y_rows = Append(@, [ctx |-> ctx, token |-> correct_id]),
                     !.out_ids = Append(@, forced(col.target_ids, col.t, ctx)),
                     !.t = @ + 1]
    /\ UNCHANGED <<fs, sel, sled, base, fit, smp, cmb, srv, cli, dec, web>>

\* X and y are returned
ColFinish ==
    /\ col.pc = "loop"
    /\ col.t >= Len(col.target_ids)
    /\ col' = [col EXCEPT !.pc = "done"]
    /\ UNCHANGED <<fs, sel, sled, base, fit, smp, cmb, srv, cli, dec, web>>

ColReturn ==
    /\ col.pc = "done"
    /\ col' = IdleCol
    /\ UNCHANGED <<fs, sel, sled, base, fit, smp, cmb, srv, cli, dec, web>>

-----------------------------------------------------------------------------
(* The handlers of app.py on the event loop of the server *)

\* requests in flight at the same time
WebIds == 1..3

CfgKeys == {"layers", "k", "weighting", "weights_path"}

\* what a request is: its route and what of its body decides the path through the handler
WebRequests ==
    {[route |-> "generate", prompt |-> p, mode |-> m, usable |-> FALSE, override |-> FALSE] :
        p \in BOOLEAN, m \in {"baseline", "sled"}}
    \cup {[route |-> "calibrate", prompt |-> TRUE, mode |-> "sled", usable |-> u, override |-> o] :
        u \in BOOLEAN, o \in BOOLEAN}

step(op, arg) == [op |-> op, arg |-> arg]

\* the statements of the /generate handler, in order
generate_steps(body) ==
    <<step("await", "json"), step("read", "weights_path")>>
    \o (IF ~body.prompt THEN <<>>
        ELSE IF body.mode = "baseline" THEN <<step("call", "generate_baseline")>>
        ELSE <<step("read", "layers"), step("read", "k"), step("read", "weighting"),
               step("call", "generate_sled")>>)
    \o <<step("return", "response")>>

\* the statements of the /calibrate handler, in order, fit_layer_weights inlined
calibrate_steps(body) ==
    <<step("await", "json"), step("read", "weights_path"), step("read", "layers"),
      step("read", "k"), step("fit", "begin"), step("fit", "collect")>>
    \o (IF ~body.usable THEN <<>>
        ELSE <<step("fit", "savez_open"), step("fit", "savez_close"),
               step("set", "layers"), step("set", "k"), step("set", "weights_path")>>
             \o (IF body.override THEN <<step("set", "weighting")>> ELSE <<>>))
    \o <<step("return", "response")>>

handler_steps(body) ==
    IF body.route = "generate" THEN generate_steps(body) ELSE calibrate_steps(body)

\* the statements at which a handler hands the event loop to somebody else
\* (variant: every statement may be preempted, as with one thread per request)
suspends_anywhere(route, s) == TRUE

suspends(route, s) == s.op = "await"

NoRequest == [route |-> "none", prompt |-> FALSE, mode |-> "sled", usable |-> FALSE, override |-> FALSE]
NotRead == [key \in CfgKeys |-> 0 - 1]

\* a request: pc counts the statements its handler has executed (0: not arrived
\* yet counts as pc 0 with route "none"); seen is what it has read of STATE.cfg;
\* snap and torn record STATE.cfg at its first read and whether an update of
\* STATE.cfg was half done then
IdleReq == [body |-> NoRequest, pc |-> 0, seen |-> NotRead, snap |-> NotRead, torn |-> FALSE]

\* STATE.cfg holds, per key, the request that assigned it last (0: main());
\* file is the artifact at the out_path: who opened it last and whether it is whole
IdleWeb ==
    [loop |-> 0,
     cfg |-> [key \in CfgKeys |-> 0],
     file |-> [writer |-> 0, whole |-> TRUE],
     reqs |-> [r \in WebIds |-> IdleReq]]

arrived(q) == q.body.route # "none"
finished(q) == arrived(q) /\ q.pc = Len(handler_steps(q.body))
next_step(q) ==
    IF arrived(q) /\ ~finished(q) THEN handler_steps(q.body)[q.pc + 1] ELSE step("none", "none")

\* inside fit_layer_weights: it has begun and has not returned
in_fit(q) == next_step(q) \in {step("fit", "collect"), step("fit", "savez_open"), step("fit", "savez_close")}

\* between the first and the last assignment of a configuration update
in_update(q) ==
    /\ arrived(q) /\ q.pc > 0
    /\ handler_steps(q.body)[q.pc].op = "set"
    /\ next_step(q).op = "set"

\* request r may execute its next statement s: it holds the loop, or the loop is free
runs(r, s) ==
    /\ next_step(web.reqs[r]) = s
    /\ web.loop \in {0, r}

\* who holds the loop once r has executed s
loop_after(r, s) ==
    IF s.op = "return" \/ suspends(web.reqs[r].body.route, s) THEN 0 ELSE r

\* a request is accepted by uvicorn and its handler is scheduled
Arrive(r, body) ==
    /\ ~arrived(web.reqs[r])
    /\ web' = [web EXCEPT !.reqs[r] = [IdleReq EXCEPT !.body = body]]
    /\ UNCHANGED <<fs, sel, sled, base, fit, smp, cmb, srv, cli, dec, col>>

\* body = await req.json()
AwaitBody(r) ==
    /\ runs(r, step("await", "json"))
    /\ web' = [web EXCEPT !.reqs[r].pc = @ + 1, !.loop = loop_after(r, step("await", "json"))]
    /\ UNCHANGED <<fs, sel, sled, base, fit, smp, cmb, srv, cli, dec, col>>

\* STATE.cfg[key] is read
ReadCfg(r, key) ==
    /\ runs(r, step("read", key))
    /\ web' = [web EXCEPT
                 !.reqs[r].pc = @ + 1,
                 !.reqs[r].seen[key] = web.cfg[key],
                 !.reqs[r].snap = IF web.reqs[r].seen = NotRead THEN web.cfg ELSE @,
                 !.reqs[r].torn = IF web.reqs[r].seen = NotRead
                                  THEN \E o \in WebIds : in_update(web.reqs[o])
                                  ELSE @,
                 !.loop = loop_after(r, step("read", key))]
    /\ UNCHANGED <<fs, sel, sled, base, fit, smp, cmb, srv, cli, dec, col>>

\* generate_baseline or generate_sled runs to its end
CallDecode(r, f) ==
    /\ runs(r, step("call", f))
    /\ web' = [web EXCEPT !.reqs[r].pc = @ + 1, !.loop = loop_after(r, step("call", f))]
    /\ UNCHANGED <<fs, sel, sled, base, fit, smp, cmb, srv, cli, dec, col>>

\* fit_layer_weights: the dry run and the selection, then the pass over the data set
FitPhase(r, phase) ==
    /\ phase \in {"begin", "collect"}
    /\ runs(r, step("fit", phase))
    /\ web' = [web EXCEPT !.reqs[r].pc = @ + 1, !.loop = loop_after(r, step("fit", phase))]
    /\ UNCHANGED <<fs, sel, sled, base, fit, smp, cmb, srv, cli, dec, col>>

\* np.savez opens the file at out_path, which truncates it
SavezOpen(r) ==
    /\ runs(r, step("fit", "savez_open"))
    /\ web' = [web EXCEPT !.reqs[r].pc = @ + 1,
                          !.file = [writer |-> r, whole |-> FALSE],
                          !.loop = loop_after(r, step("fit", "savez_open"))]
    /\ UNCHANGED <<fs, sel, sled, base, fit, smp, cmb, srv, cli, dec, col>>

\* np.savez writes the arrays and closes the file; fit_layer_weights returns
SavezClose(r) ==
    /\ runs(r, step("fit", "savez_close"))
    /\ web' = [web EXCEPT !.reqs[r].pc = @ + 1,
                          !.file = [writer |-> r, whole |-> web.file.writer = r],
                          !.loop = loop_after(r, step("fit", "savez_close"))]
    /\ UNCHANGED <<fs, sel, sled, base, fit, smp, cmb, srv, cli, dec, col>>

\* STATE.cfg[key] = ...
SetCfg(r, key) ==
    /\ runs(r, step("set", key))
    /\ web' = [web EXCEPT !.reqs[r].pc = @ + 1,
                          !.cfg[key] = r,
                          !.loop = loop_after(r, step("set", key))]
    /\ UNCHANGED <<fs, sel, sled, base, fit, smp, cmb, srv, cli, dec, col>>

\* return JSONResponse(...)
Return(r) ==
    /\ runs(r, step("return", "response"))
    /\ web' = [web EXCEPT !.reqs[r].pc = @ + 1,
                          !.loop = loop_after(r, step("return", "response"))]
    /\ UNCHANGED <<fs, sel, sled, base, fit, smp, cmb, srv, cli, dec, col>>

-----------------------------------------------------------------------------

Init ==
    /\ fs = [p \in Paths |-> Missing]
    /\ sel = IdleSel
    /\ sled = IdleSled
    /\ base = IdleBase
    /\ fit = IdleFit
    /\ smp = IdleSmp([i \in TokenIds |-> 0])
    /\ cmb = IdleCmb(<<>>, "uniform", None)
    /\ srv = IdleSrv([layers |-> "last_k", k |-> 1, weighting |-> "uniform",
                      weights_path |-> <<"w", ".npz">>],
                     [num_layers |-> 2, has_head |-> TRUE])
    /\ cli = IdleCli
    /\ dec = [c \in CallIds |-> IdleDec]
    /\ col = IdleCol
    /\ web = IdleWeb

Next ==
    \/ Quiet /\ \E n \in LayerCounts, l \in Strategies, k \in Ks :
                  Select(n, l, k)
    \/ SelectReturn
    \/ Quiet /\ \E n \in LayerCounts, l \in LayerModes, k \in Ks, w \in Weightings, p \in Paths,
          m \in TokenBudgets, e \in EosIds, h \in BOOLEAN :
          SledBegin(n, l, k, w, p, m, e, h)
    \/ SledStep
    \/ SledFinish
    \/ SledReturn
    \/ Quiet /\ \E m \in TokenBudgets, e \in EosIds : BaseBegin(m, e)
    \/ BaseStep
    \/ BaseFinish
    \/ BaseReturn
    \/ Quiet /\ \E n \in LayerCounts, l \in LayerModes, k \in Ks, h \in BOOLEAN,
                    mi \in MaxItemsVals, m \in FitBudgets, p \in Paths :
                  FitBegin(n, l, k, h, mi, m, p)
    \/ fit.pc = "open" /\ \E d \in Datasets, w \in RidgeSolutions(Len(fit.chosen)) :
                  FitRun(d, w)
    \/ FitReturn
    \/ \E p \in ExtPaths, a \in ExtArtifacts : ExtWrite(p, a)
    \/ \E p \in ExtPaths : ExtDelete(p)

Spec == Init /\ [][Next]_vars

\* the decode calls alone, over the disk as the environment leaves it
DecodeNext ==
    \/ Quiet /\ \E n \in LayerCounts, l \in LayerModes, k \in Ks, w \in Weightings, p \in Paths,
          m \in TokenBudgets, e \in EosIds, h \in BOOLEAN :
          SledBegin(n, l, k, w, p, m, e, h)
    \/ SledStep
    \/ SledFinish
    \/ SledReturn
    \/ Quiet /\ \E m \in TokenBudgets, e \in EosIds : BaseBegin(m, e)
    \/ BaseStep
    \/ BaseFinish
    \/ BaseReturn
    \/ Quiet /\ \E p \in ExtPaths, a \in ExtArtifacts : ExtWrite(p, a)

\* a decode call that has begun runs on: each iteration is one synchronous
\* computation and neither loop waits for anything
FairSpec ==
    /\ Init /\ [][DecodeNext]_vars
    /\ WF_vars(SledStep) /\ WF_vars(SledFinish)
    /\ WF_vars(BaseStep) /\ WF_vars(BaseFinish)


\* the engine at rest: no call in flight and no file on the disk
EngineIdle ==
    /\ fs = [p \in Paths |-> Missing]
    /\ sel = IdleSel
    /\ sled = IdleSled
    /\ base = IdleBase
    /\ fit = IdleFit
    /\ dec = [c \in CallIds |-> IdleDec]
    /\ col = IdleCol
    /\ web = IdleWeb

\* _nucleus_sample on its own: any logits, then calls with any top_p and temperature
SamplerInit ==
    /\ EngineIdle
    /\ smp \in {IdleSmp(l) : l \in LogitVectors}
    /\ cmb = IdleCmb(<<>>, "uniform", None)
    /\ srv = IdleSrv([layers |-> "last_k", k |-> 1, weighting |-> "uniform",
                      weights_path |-> <<"w", ".npz">>],
                     [num_layers |-> 2, has_head |-> TRUE])
    /\ cli = IdleCli

SamplerNext == \E top_p \in TopPs, temperature \in Temperatures : Sample(top_p, temperature)

SamplerSpec == SamplerInit /\ [][SamplerNext]_vars

\* the combiner on its own: any per-layer logits, weighting and loaded weights
CombinerInit ==
    /\ EngineIdle
    /\ smp = IdleSmp([i \in TokenIds |-> 0])
    /\ cmb \in {IdleCmb(L, w, lw) :
                  L \in LogitStacks, w \in Weightings, lw \in {None}} \cup
               UNION {{IdleCmb(L, "learned", lw) : lw \in LearnedFor(Len(L))} :
                        L \in LogitStacks}
    /\ srv = IdleSrv([layers |-> "last_k", k |-> 1, weighting |-> "uniform",
                      weights_path |-> <<"w", ".npz">>],
                     [num_layers |-> 2, has_head |-> TRUE])
    /\ cli = IdleCli

CombinerNext == Combine \/ StepCombine

CombinerSpec == CombinerInit /\ [][CombinerNext]_vars

\* the server: started with any configuration on any model, it answers /generate
\* requests while artifacts come and go on the disk
ServerInit ==
    /\ EngineIdle
    /\ smp = IdleSmp([i \in TokenIds |-> 0])
    /\ cmb = IdleCmb(<<>>, "uniform", None)
    /\ srv \in {IdleSrv(cfg, m) : cfg \in ServerCfgs, m \in ServerModels}
    /\ cli = IdleCli

ServerNext ==
    \/ \E body \in GenerateBodies : Generate(body)
    \/ \E p \in ExtPaths, a \in ExtArtifacts : ExtWrite(p, a)

ServerSpec == ServerInit /\ [][ServerNext]_vars

\* the server answering /generate and /calibrate requests one after the other,
\* with nothing else writing to the disk
PipelineInit ==
    /\ EngineIdle
    /\ smp = IdleSmp([i \in TokenIds |-> 0])
    /\ cmb = IdleCmb(<<>>, "uniform", None)
    /\ srv \in {IdleSrv([layers |-> "last_k", k |-> 1, weighting |-> "uniform",
                          weights_path |-> <<"w", ".npz">>], m) : m \in ServerModels}
    /\ cli = IdleCli

PipelineNext ==
    \/ \E body \in GenerateBodies : Generate(body)
    \/ \E body \in CalibrateBodies, d \in CalDatasets : Calibrate(body, d)

PipelineSpec == PipelineInit /\ [][PipelineNext]_vars

\* the client plugin: calls of run with any action, configuration and transport
ClientNext ==
    \E action \in ClientActions, config \in ClientConfigs, kwargs \in ClientKwargs,
       transport \in Transports : Run(action, config, kwargs, transport)

ClientSpec == Init /\ [][ClientNext]_vars

\* decode calls whose steps interleave, on a disk that does not change
CallsNext ==
    \E c \in CallIds :
       \/ \E kd \in DecKinds, p \in Prompts, m \in DecBudgets, e \in EosIds,
             t \in DecTemperatures : DecBegin(c, kd, p, m, e, t)
       \/ DecStep(c)
       \/ DecFinish(c)
       \/ DecReturn(c)

CallsSpec == Init /\ [][CallsNext]_vars

\* uvicorn.run(app): one process, one event loop, any requests arriving at any time
LoopNext ==
    \/ \E r \in WebIds, body \in WebRequests : Arrive(r, body)
    \/ \E r \in WebIds : AwaitBody(r)
    \/ \E r \in WebIds, key \in CfgKeys : ReadCfg(r, key)
    \/ \E r \in WebIds, f \in {"generate_baseline", "generate_sled"} : CallDecode(r, f)
    \/ \E r \in WebIds, phase \in {"begin", "collect"} : FitPhase(r, phase)
    \/ \E r \in WebIds : SavezOpen(r)
    \/ \E r \in WebIds : SavezClose(r)
    \/ \E r \in WebIds, key \in CfgKeys : SetCfg(r, key)
    \/ \E r \in WebIds : Return(r)

LoopSpec == Init /\ [][LoopNext]_vars

\* _collect_step_features on any item
CollectNext ==
    \/ \E p \in Prompts, tg \in TargetIds, k \in ColLayers, m \in ColBudgets : ColBegin(p, tg, k, m)
    \/ ColStep
    \/ ColFinish
    \/ ColReturn

CollectSpec == Init /\ [][CollectNext]_vars

-----------------------------------------------------------------------------
(* Properties *)

\* s is the ascending range of len integers that ends with last
IsRangeEndingAt(s, len, last) ==
    /\ Len(s) = len
    /\ \A i \in 1..Len(s) : s[i] = last - len + i

\* C1: for total_layers >= 1 and k >= 1 the "last_k" selection is the contiguous
\* ascending range of min(k, total_layers) indices that ends at total_layers - 1
C1_LastKRange ==
    (sel.pc = "done" /\ sel.layers = "last_k" /\ sel.num_layers >= 1 /\ sel.k >= 1)
    => IsRangeEndingAt(sel.out, Min(sel.k, sel.num_layers), sel.num_layers - 1)

\* a selection with k above the layer count has been made
C1_Witness ==
    /\ sel.pc = "done" /\ sel.layers = "last_k"
    /\ sel.num_layers >= 2 /\ sel.k > sel.num_layers
    /\ Len(sel.out) = sel.num_layers

\* C2: for total_layers >= 0, every k and every strategy the selection is strictly
\* ascending, every index i has 0 <= i < total_layers, "last_k" selects exactly
\* min(max(k, 1), total_layers) indices, and hidden_states[i + 1] is inside the
\* stack of total_layers + 1 hidden states
C2_ChosenLayersInvariant ==
    sel.pc = "done" =>
        /\ \A i \in 1..Len(sel.out) : \A j \in 1..Len(sel.out) :
               i < j => sel.out[i] < sel.out[j]
        /\ \A i \in 1..Len(sel.out) : 0 <= sel.out[i] /\ sel.out[i] < sel.num_layers
        /\ sel.layers = "last_k" =>
               Len(sel.out) = Min(Max(sel.k, 1), sel.num_layers)
        /\ \A i \in 1..Len(sel.out) :
               0 <= sel.out[i] + 1 /\ sel.out[i] + 1 <= sel.num_layers

\* w gives each of n layers the weight 1/n
IsUniform(w, n) ==
    /\ Len(w.num) = n
    /\ \A i \in 1..n : w.num[i] * n = w.den

\* the multi-layer call has passed its setup
SledRunning == sled.pc \in {"loop", "done", "raised"} /\ sled.raised # "ValueError"

C4_DifferentLayersRejected ==
    (SledRunning /\ sled.weighting_requested = "learned" /\ sled.seen.layers = "differ")
    => /\ sled.learned_w = None
       /\ sled.weighting_applied = "uniform"
       /\ sled.used # None => IsUniform(sled.used[1], sled.k_eff)

\* an artifact with the right number of weights and other layers has been read,
\* and a step made
C4_Witness ==
    /\ sled.weighting_requested = "learned" /\ sled.seen.layers = "differ"
    /\ sled.seen.weights = "ok" /\ sled.used # None

\* what the call found is an artifact for exactly its selection
Compatible(c) ==
    c.seen.file = "npz" /\ c.seen.weights = "ok" /\ c.seen.layers = "equal"

\* C5: learned weights are applied only if the artifact is present and stores the
\* selection of the call and exactly k_eff weights; in every other case (missing,
\* unreadable, wrong weight count, stored layers absent or different) the call
\* combines with uniform weights and reports weighting_applied "uniform"
C5_LearnedOnlyIfCompatible ==
    (SledRunning /\ sled.weighting_requested = "learned")
    => /\ sled.weighting_applied = "learned" => Compatible(sled)
       /\ ~Compatible(sled) =>
              /\ sled.weighting_applied = "uniform"
              /\ sled.used # None => IsUniform(sled.used[1], sled.k_eff)
              /\ sled.pc = "done" => sled.meta[1].weighting_applied = "uniform"

KnownPolicies == {"uniform", "depth_softmax", "learned"}

\* the weights the last step used are those of the policy called name
UsedIs(c, name) ==
    CASE name = "uniform" -> IsUniform(c.used[1], c.k_eff)
      [] name = "depth_softmax" -> c.used[1] = _depth_weights(c.k_eff)
      [] name = "learned" -> c.learned_w # None /\ c.used[1] = c.learned_w[1]
      [] OTHER -> FALSE

\* C6: for every requested weighting, also one outside uniform / depth_softmax /
\* learned, weighting_applied of a returned call over several layers names the
\* policy whose weights combined the layers at every step, and it differs from
\* weighting_requested exactly when the weights used are not those of the
\* requested policy
C6_AppliedIsReported ==
    (sled.pc = "done" /\ sled.used # None /\ sled.k_eff >= 2)
    => /\ sled.meta[1].weighting_applied \in KnownPolicies
       /\ UsedIs(sled, sled.meta[1].weighting_applied)
       /\ (sled.meta[1].weighting_applied # sled.meta[1].weighting_requested)
              <=> ~UsedIs(sled, sled.meta[1].weighting_requested)

\* C7: the metadata of a returned call has weighting_requested, weighting_applied,
\* k, chosen_indices and weights_path; k is the length of chosen_indices, which is
\* the selection every step projected; weights_path is the path the weights were
\* loaded from when weighting_applied is "learned", and null otherwise
C7_MetadataContract ==
    sled.pc = "done" =>
        LET m == sled.meta[1] IN
        /\ {"weighting_requested", "weighting_applied", "k", "chosen_indices",
            "weights_path"} \subseteq DOMAIN m
        /\ m.weighting_requested = sled.weighting_requested
        /\ m.k = Len(m.chosen_indices)
        /\ m.chosen_indices = sled.chosen
        /\ sled.projected # None => sled.projected[1] = m.chosen_indices
        /\ m.weighting_applied = "learned" =>
               /\ sled.seen.file = "npz" /\ sled.learned_w # None
               /\ m.weights_path = Some(sled.weights_path)
        /\ m.weighting_applied # "learned" => m.weights_path = None

\* a call that loaded an artifact and made a step has returned
C7_Witness ==
    /\ sled.pc = "done" /\ sled.projected # None
    /\ sled.meta[1].weighting_applied = "learned"
    /\ sled.meta[1].weights_path # None

\* the ids a loop with this budget may append
Budget(c) == Max(c.max_new_tokens, 0)

\* the last id appended is the end-of-sequence id
EndsWithEos(c) ==
    c.eos # None /\ c.out_ids # <<>> /\ c.out_ids[Len(c.out_ids)] = c.eos[1]

\* no id follows an end-of-sequence id
NothingAfterEos(c) ==
    \A i \in 1..(Len(c.out_ids) - 1) : c.eos # None => c.out_ids[i] # c.eos[1]

\* the stopping rule of a loop, with the budget max(max_new_tokens, 0)
StoppingRule(c) ==
    /\ Len(c.out_ids) <= Budget(c)
    /\ NothingAfterEos(c)
    /\ c.pc = "done" => EndsWithEos(c) \/ Len(c.out_ids) = Budget(c)
    /\ (c.pc = "done" /\ c.eos = None) => Len(c.out_ids) = Budget(c)

\* the stopping rule as the claim words it, with the budget max_new_tokens
StoppingRuleAsClaimed(c) ==
    /\ Len(c.out_ids) <= c.max_new_tokens
    /\ NothingAfterEos(c)
    /\ c.pc = "done" => EndsWithEos(c) \/ Len(c.out_ids) = c.max_new_tokens
    /\ (c.pc = "done" /\ c.eos = None) => Len(c.out_ids) = Budget(c)

InLoop(c) == c.pc \in {"loop", "done"}

\* C8 as claimed: both loops append at most max_new_tokens ids, stop right after
\* the first end-of-sequence id, and stop with the last id end-of-sequence or with
\* exactly max_new_tokens ids
C8_StoppingRuleAsClaimed ==
    /\ InLoop(sled) => StoppingRuleAsClaimed(sled)
    /\ InLoop(base) => StoppingRuleAsClaimed(base)

\* C8, amended: both loops append at most max(max_new_tokens, 0) ids and no id after
\* an end-of-sequence id; a loop that has stopped ends with end-of-sequence or has
\* exactly max(max_new_tokens, 0) ids, the latter whenever the tokenizer has no
\* end-of-sequence id; and every loop that has begun stops
C8_StoppingRule ==
    /\ [](InLoop(sled) => StoppingRule(sled))
    /\ [](InLoop(base) => StoppingRule(base))
    /\ (sled.pc = "loop") ~> (sled.pc \in {"done", "raised"})
    /\ (base.pc = "loop") ~> (base.pc = "done")

\* a multi-layer call with budget left has stopped at an end-of-sequence id
C8_Witness ==
    /\ sled.pc = "done" /\ EndsWithEos(sled)
    /\ 0 < Len(sled.out_ids) /\ Len(sled.out_ids) < sled.max_new_tokens

\* the artifact a holds the clipped and normalised solution sol for the layers chosen
WellFormedArtifact(a, sol, chosen) ==
    /\ a.kind = "npz" /\ a.layer_weights # None /\ a.chosen # None
    /\ LET w == a.layer_weights[1]
           clipped == [i \in 1..Len(sol) |-> Max(sol[i], 0)]
       IN  /\ w.den > 0
           /\ \A i \in 1..Len(w.num) : w.num[i] >= 0
           /\ Len(w.num) = Len(a.chosen[1])
           /\ SumSeq(w.num) = w.den
           /\ SumSeq(clipped) > 0 =>
                  \A i \in 1..Len(sol) : sol[i] < 0 => w.num[i] = 0
           /\ SumSeq(clipped) <= 0 => IsUniform(w, Len(chosen))
    /\ a.chosen[1] = chosen

\* C9: the artifact fit_layer_weights writes has weights that are all >= 0, as many
\* as the chosen layers stored beside them, and that sum to 1; negative ridge
\* solutions are clipped to 0, a clipped sum <= 0 gives the uniform weights, and
\* the stored chosen list is the selection the features were collected for
C9_ArtifactWellFormed ==
    [][(fit.pc = "open" /\ fit'.pc = "done" /\ fit'.result.ok)
       => /\ fit'.wrote = Some(SavezPath(fit.out_path))
          /\ WellFormedArtifact(fs'[fit'.wrote[1]], fit'.sol, fit.chosen)]_vars

\* a fit over several layers has written the artifact of a solution with a negative
\* and a positive entry
C9_Witness ==
    /\ fit.pc = "done" /\ fit.result.ok /\ fit.wrote # None
    /\ \E i \in 1..Len(fit.sol) : fit.sol[i] < 0
    /\ \E i \in 1..Len(fit.sol) : fit.sol[i] > 0
    /\ fs[fit.wrote[1]] = Npz(Some(normalize(fit.sol)), Some(fit.chosen))

\* no line of the dataset is a usable (prompt, target) pair
ZeroUsable(lines, max_new_tokens) ==
    \A i \in 1..Len(lines) :
        \/ lines[i].kind \in SkipKinds \cup {"nonobject"}
        \/ Rows(lines[i].ntarget, max_new_tokens) = 0

\* C10: on a dataset with no usable pair fit_layer_weights returns ok false with
\* a non-empty error, raises nothing and writes no artifact
C10_ZeroUsableReported ==
    (/\ fit.pc \in {"done", "raised"} /\ fit.dataset # None
     /\ ZeroUsable(fit.dataset[1], fit.max_new_tokens))
    => /\ fit.pc = "done"
       /\ ~fit.result.ok
       /\ fit.result.error # ""
       /\ fit.wrote = None

\* the line is an object with a prompt and a target
IsPair(ln) == ln.kind = "pair"

\* C11: a blank line, a line that is not JSON, a JSON line that is no object and an
\* object without prompt or target are skipped: the call does not raise, and its
\* items_used and rows are those of the dataset without these lines
C11_MalformedSkipped ==
    (fit.pc \in {"done", "raised"} /\ fit.dataset # None)
    => LET r == scan(SelectSeq(fit.dataset[1], IsPair), 1, 0, 0,
                     fit.max_items, fit.max_new_tokens, <<>>)
       IN  /\ fit.pc = "done"
           /\ fit.result.ok =>
                  /\ fit.result.items_used = r.items_used
                  /\ fit.result.steps_collected = r.steps
           /\ ~fit.result.ok => r.items_used = 0

\* C12: when the dataset cannot be opened fit_layer_weights returns ok false with
\* a non-empty error instead of raising, and writes no artifact
C12_IoErrorReported ==
    [][(fit.pc = "open" /\ fit'.pc # "open" /\ fit'.dataset = None)
       => /\ fit'.pc = "done"
          /\ ~fit'.result.ok
          /\ fit'.result.error # ""
          /\ fit'.wrote = None
          /\ fs' = fs]_vars

\* the weight vectors a and b are equal as vectors of rationals
SameWeights(a, b) ==
    /\ Len(a.num) = Len(b.num)
    /\ \A i \in 1..Len(a.num) : a.num[i] * b.den = b.num[i] * a.den

\* the loader, called with the layers chosen on the disk files right after a fit
\* that wrote the weights of sol with out_path, gives these weights back
RoundTrips(out_path, chosen, sol, files) ==
    LET got == _load_learned_weights(Len(chosen), out_path, Some(chosen), files)
    IN  /\ files[out_path].kind = "npz"
        /\ files[out_path].chosen = Some(chosen)
        /\ got # None
        /\ SameWeights(got[1], normalize(sol))
        /\ SumSeq(got[1].num) = got[1].den

\* C13: after fit_layer_weights returns ok with out_path P, for any path P, the
\* loader called with P and the same chosen layers finds the artifact, accepts it
\* and returns the persisted weights, which sum to 1, and the stored layers read
\* back are the ones written
C13_RoundTrip ==
    [][(fit.pc = "open" /\ fit'.pc = "done" /\ fit'.result.ok)
       => RoundTrips(fit'.result.out_path, fit.chosen, fit'.sol, fs')]_vars

\* w has n entries, none negative, that sum to 1
IsMixingWeights(w, n) ==
    /\ Len(w.num) = n
    /\ w.den > 0
    /\ \A i \in 1..Len(w.num) : w.num[i] >= 0
    /\ SumSeq(w.num) = w.den

\* C14: at every step of every generate_sled call, whichever policy is applied
\* and whatever accepted artifact the learned weights come from, the weights that
\* combine the layers are k_eff non-negative numbers that sum to 1
C14_MixingWeightsAtDecode ==
    sled.used # None => IsMixingWeights(sled.used[1], sled.k_eff)

\* C15: with temperature <= 0 the sampler returns an index of the largest logit,
\* whatever top_p is, and every such call on the same logits returns the same id
C15_GreedyIsArgmax ==
    (smp.pc = "called" /\ smp.temperature <= 0)
    => /\ smp.raised = "" /\ smp.out # None
       /\ \A j \in TokenIds : smp.logits[j] <= smp.logits[smp.out[1]]
       /\ smp.greedy_outs = {smp.out[1]}

\* two greedy calls in a row with different top_p have been made on logits whose
\* largest value occurs twice
C15_Witness ==
    /\ smp.pc = "called" /\ smp.temperature <= 0
    /\ smp.greedy_top_p # None /\ smp.greedy_top_p # Some(smp.top_p)
    /\ \E i, j \in TokenIds :
         /\ i # j /\ smp.logits[i] = smp.logits[j]
         /\ \A m \in TokenIds : smp.logits[m] <= smp.logits[i]

LayerOrders(n) == {f \in [1..n -> 1..n] : \A i, j \in 1..n : i # j => f[i] # f[j]}

\* the fractions an / ad and bn / bd are the same number
SameFraction(an, ad, bn, bd) == IF ad = bd THEN an = bn ELSE an * bd = bn * ad

\* the weighted sum out is, at every position, the rational value of r
SameLogits(out, r) ==
    \A v \in DOMAIN out.num : SameFraction(out.num[v], out.den, r.num[v], r.den)

\* C17: the output of the combiner is, at every vocabulary position, the sum over
\* the layers of weight_i * layer_logits_i for the weights of the applied policy
\* (uniform: the mean; combine([[0,0],[2,2]], uniform) = [1,1]); permuting the
\* layers with their weights leaves it unchanged; the same inputs give the same
\* output
C17_CombinerIsWeightedSum ==
    (cmb.pc \in {"combined", "stepped"} /\ cmb.out # None)
    => LET L == cmb.layer_logits
           n == Len(L)
           w == cmb.w[1]
           out == cmb.out[1]
           applied == IF cmb.pc = "combined" THEN cmb.weighting
                      ELSE applied_weighting(cmb.weighting, cmb.learned_w)
       IN  /\ Len(w.num) = n
           /\ applied = "uniform" => IsUniform(w, n)
           /\ applied = "depth_softmax" => w = _depth_weights(n)
           /\ (cmb.pc = "stepped" /\ applied = "learned") => w = cmb.learned_w[1]
           /\ \A v \in 1..2 :
                  SameFraction(out.num[v], out.den,
                               SumSeq([i \in 1..n |-> w.num[i] * L[i][v]]), w.den)
           /\ (applied = "uniform" /\ L = <<<<0, 0>>, <<2, 2>>>>)
                  => \A v \in 1..2 : out.num[v] = out.den
           /\ \A f \in LayerOrders(n) :
                  SameLogits(out,
                             weighted_sum([num |-> [i \in 1..n |-> w.num[f[i]]],
                                           den |-> w.den],
                                          [i \in 1..n |-> L[f[i]]]))
           /\ cmb.outs = {out}

\* the layers [0,0] and [2,2] have been combined with uniform weights, twice
C17_Witness ==
    /\ cmb.pc = "combined" /\ cmb.weighting = "uniform"
    /\ cmb.layer_logits = <<<<0, 0>>, <<2, 2>>>>
    /\ cmb.out = Some([num |-> <<2, 2>>, den |-> 2])

\* generate_sled has raised the configuration error at its setup
SledHeadError ==
    /\ sled.pc = "raised" /\ sled.raised = "ValueError"
    /\ sled.steps = 0 /\ sled.out_ids = <<>> /\ sled.projected = None

\* fit_layer_weights has raised the configuration error at its setup
FitHeadError ==
    /\ fit.pc = "raised" /\ fit.raised = "ValueError"
    /\ fit.dataset = None /\ fit.wrote = None

\* fit_layer_weights has returned because no layer is selected
FitNoLayers ==
    /\ fit.pc = "done" /\ ~fit.result.ok
    /\ fit.result.error = "No layers selected for calibration."
    /\ fit.dataset = None /\ fit.wrote = None

\* C18 as claimed: on a model without a usable output head generate_sled and
\* fit_layer_weights raise the configuration error at setup, before any step, any
\* dataset line and any artifact, and the error arises nowhere else
C18_NoHeadRaisedAtSetupAsClaimed ==
    /\ (sled.pc # "idle" /\ ~sled.has_head) => SledHeadError
    /\ (fit.pc # "idle" /\ ~fit.has_head) => FitHeadError
    /\ sled.raised = "ValueError" => SledHeadError /\ ~sled.has_head
    /\ fit.raised = "ValueError" => FitHeadError /\ ~fit.has_head

\* C18, amended: as claimed, except that fit_layer_weights with an empty selection
\* returns ok false ("No layers selected for calibration.") before it looks for
\* the head
C18_NoHeadRaisedAtSetup ==
    /\ (sled.pc # "idle" /\ ~sled.has_head) => SledHeadError
    /\ (fit.pc # "idle" /\ ~fit.has_head) => FitHeadError \/ FitNoLayers
    /\ sled.raised = "ValueError" => SledHeadError /\ ~sled.has_head
    /\ fit.raised = "ValueError" => FitHeadError /\ ~fit.has_head

\* fit_layer_weights has raised on a model without a head
C18_Witness == FitHeadError /\ ~fit.has_head

\* C19: a /generate request with a missing or empty prompt is answered with status
\* 400, ok false and "Missing prompt"; no engine function is invoked for it and
\* the configuration of the server is unchanged
C19_EmptyPromptRejected ==
    (srv.pc = "replied" /\ srv.req[1].prompt = "")
    => /\ srv.resp = Failure(400, "Missing prompt")
       /\ srv.invoked = "none"
       /\ srv.cfg = srv.cfg_before

\* C20: run returns a dict with exactly the keys ok, data and error and does not
\* raise; for an unknown action, a transport failure, a timeout or a reply that
\* is no JSON (object) it returns ok false, no data and a non-empty error; data
\* is non-null only when ok is true
C20_ClientContract ==
    cli.pc # "idle"
    => /\ cli.pc = "returned" /\ cli.raised = ""
       /\ DOMAIN cli.result = {"ok", "data", "error"}
       /\ cli.result.ok \in BOOLEAN
       /\ (\/ cli.action \notin {"health", "generate", "calibrate"}
           \/ cli.posted /\ cli.transport # "object")
          => /\ ~cli.result.ok
             /\ cli.result.data = None
             /\ cli.result.error # None /\ cli.result.error[1] # ""
       /\ cli.result.data # None => cli.result.ok

\* a generate call has timed out
C20_Witness ==
    /\ cli.pc = "returned" /\ cli.action = "generate"
    /\ cli.posted /\ cli.transport = "timeout"
    /\ ~cli.result.ok

\* C28: depth_softmax weights over k_eff >= 2 layers increase strictly with the
\* rank of the layer (rank 1 the shallowest), are the same for every logits and
\* every loaded artifact (a function of k_eff alone) and sum to 1; with one layer
\* the combined logits are the logits of that layer, whatever the weighting
C28_DepthWeightsIncrease ==
    (cmb.pc \in {"combined", "stepped"} /\ cmb.out # None)
    => LET L == cmb.layer_logits
           n == Len(L)
           w == cmb.w[1]
           out == cmb.out[1]
           applied == IF cmb.pc = "combined" THEN cmb.weighting
                      ELSE applied_weighting(cmb.weighting, cmb.learned_w)
       IN  /\ (applied = "depth_softmax" /\ n >= 2)
              => /\ Len(w.num) = n /\ w.den > 0
                 /\ \A i \in 1..(n - 1) : 0 < w.num[i] /\ w.num[i] < w.num[i + 1]
                 /\ SumSeq(w.num) = w.den
                 /\ \A i \in 1..n : w.num[i] = ExpScaled(i)
           /\ n = 1 => \A v \in 1..2 : SameFraction(out.num[v], out.den, L[1][v], 1)

\* a step has combined three layers with depth_softmax weights
C28_Witness ==
    /\ cmb.pc = "stepped" /\ cmb.weighting = "depth_softmax"
    /\ Len(cmb.layer_logits) = 3 /\ cmb.out # None
    /\ cmb.w = Some(_depth_weights(3))

\* the weights generate_sled resolved at its setup
Resolved(c) ==
    IF c.weighting_applied = "learned" /\ c.learned_w # None
    THEN c.learned_w[1]
    ELSE combine_weights(c.k_eff, c.weighting_applied)

\* C25: while a generate_sled call is in its loop, whatever happens to the files,
\* the chosen layers, k_eff, weighting_applied, the loaded weights and what the
\* call has read of the artifact stay as the setup left them (the file is not
\* read again), and every step projects the chosen layers and combines them with
\* the weights resolved at setup
C25_ResolvedOnce ==
    [][(sled.pc = "loop" /\ sled'.pc \in {"loop", "done"})
       => /\ sled'.chosen = sled.chosen
          /\ sled'.k_eff = sled.k_eff
          /\ sled'.weighting_applied = sled.weighting_applied
          /\ sled'.learned_w = sled.learned_w
          /\ sled'.seen = sled.seen
          /\ (sled.steps = 0 /\ sled'.steps = 0) => sled'.used = None
          /\ sled'.steps > sled.steps
             => /\ sled'.projected = Some(sled.chosen)
                /\ sled'.used = Some(Resolved(sled))
                /\ sled.used # None => sled'.used = sled.used]_vars

\* a decode with learned weights has taken its second step after the artifact it
\* loaded was removed from the disk
C25_Witness ==
    /\ sled.pc = "loop" /\ sled.steps >= 2
    /\ sled.weighting_applied = "learned" /\ sled.used = Some(sled.learned_w[1])
    /\ fs[sled.weights_path] = Missing

\* how many of the first n lines contributed at least one row
UsedLines(rows, n) == Cardinality({i \in 1..n : rows[i] >= 1})

\* C24: in a successful calibration every item read contributes exactly
\* min(number of target tokens, max_new_tokens) rows; items_used counts the items
\* with at least one row and does not exceed max_items (>= 1); no line after the
\* max_items-th used item is read; steps_collected is the total number of rows
C24_CalibrationLimits ==
    (fit.pc = "done" /\ fit.result.ok)
    => LET d == fit.dataset[1]
           rows == fit.rows
           n == Len(rows)
       IN  /\ n <= Len(d)
           /\ \A i \in 1..n :
                  rows[i] = IF d[i].kind = "pair"
                            THEN Min(d[i].ntarget, fit.max_new_tokens)
                            ELSE 0
           /\ fit.result.items_used = UsedLines(rows, n)
           /\ fit.max_items >= 1 => fit.result.items_used <= fit.max_items
           /\ \A m \in 0..(n - 1) : UsedLines(rows, m) < fit.max_items
           /\ n < Len(d) => UsedLines(rows, n) = fit.max_items
           /\ fit.result.steps_collected = SumSeq(rows)

\* the positions of out_ids that model call i of the decode call d was given
FedPositions(d, i) == d.fed[i].from .. (d.fed[i].from + Len(d.fed[i].input) - 1)

\* the ids the model has consumed once call i of d is made: cache, then input
FedContext(d, i) ==
    (IF d.fed[i].past = None THEN <<>> ELSE d.fed[i].past[1]) \o d.fed[i].input

\* C21: in a generate_sled call no position of (prompt, then produced ids) is
\* submitted to the model twice, and at every model call the cache with the
\* input is exactly the prompt followed by the ids produced so far
C21_NoPositionRecomputed ==
    \A c \in CallIds :
       (dec[c].kind = "sled" /\ dec[c].pc \in {"loop", "done"})
       => LET d == dec[c] IN
          /\ \A i, j \in 1..Len(d.fed) :
                 i # j => FedPositions(d, i) \cap FedPositions(d, j) = {}
          /\ \A i \in 1..Len(d.fed) :
                 FedContext(d, i) = SubSeq(d.out_ids, 1, Len(FedContext(d, i)))

\* C22: in a generate_baseline call the first model call is given the whole
\* prompt and no cache, every later call the one id appended last and the cache
\* the call before it returned; out_ids starts with the prompt and has one more
\* id per step; the text is decoded from the ids after the prompt
C22_BaselineIncremental ==
    \A c \in CallIds :
       (dec[c].kind = "baseline" /\ dec[c].pc \in {"loop", "done"})
       => LET d == dec[c]
              P == Len(d.prompt)
          IN  /\ Len(d.fed) = d.steps
              /\ Len(d.out_ids) = P + d.steps
              /\ SubSeq(d.out_ids, 1, P) = d.prompt
              /\ d.steps >= 1 => d.fed[1].input = d.prompt /\ d.fed[1].past = None
              /\ \A i \in 2..d.steps :
                     /\ d.fed[i].input = <<d.out_ids[P + i - 1]>>
                     /\ d.fed[i].from = P + i - 1
                     /\ d.fed[i].past = Some(FedContext(d, i - 1))
              /\ d.pc = "done"
                 => d.text = Some(decode(SubSeq(d.out_ids, P + 1, Len(d.out_ids)), d.eos))

\* a baseline call on a prompt of two tokens has returned after two steps
C22_Witness ==
    \E c \in CallIds :
       /\ dec[c].kind = "baseline" /\ dec[c].pc = "done"
       /\ Len(dec[c].prompt) = 2 /\ dec[c].steps = 2

\* C26: the accumulated ids, the cache and the step count of a decode call are
\* those its own steps produced (every model call is given the cache its own
\* previous call returned), and a greedy call returns the text and the metadata
\* it returns when it runs alone, however the steps of the calls interleave
C26_CallsIsolated ==
    \A c \in CallIds :
       dec[c].pc \in {"loop", "done"}
       => LET d == dec[c]
              first == IF d.kind = "sled" THEN 2 ELSE 1       \* after the dry run
              alone == run_alone(dec_begin(d.kind, d.prompt, d.max_new_tokens, d.eos,
                                           d.temperature))
          IN  /\ Len(d.fed) = d.steps + first - 1
              /\ Len(d.out_ids) = Len(d.prompt) + d.steps
              /\ d.fed # <<>> => d.fed[1].past = None
              /\ \A i \in 2..Len(d.fed) : d.fed[i].past = Some(FedContext(d, i - 1))
              /\ d.fed # <<>> => d.past = Some(FedContext(d, Len(d.fed)))
              /\ (d.pc = "done" /\ d.temperature <= 0)
                 => d.text = alone.text /\ d.meta = alone.meta

\* two greedy calls of different kinds on different prompts have both returned
\* after two steps each
C26_Witness ==
    /\ dec[1].pc = "done" /\ dec[2].pc = "done"
    /\ dec[1].kind # dec[2].kind /\ dec[1].prompt # dec[2].prompt
    /\ dec[1].temperature <= 0 /\ dec[2].temperature <= 0
    /\ dec[1].steps = 2 /\ dec[2].steps = 2

\* C23: at every forced step the id appended is the next token of the target
\* continuation; row t of X and of y is for that token, from one model call that
\* has consumed exactly the prompt and the target tokens before it, X with k_eff
\* values; X and y have the same number of rows
C23_TeacherForcing ==
    col.pc \in {"loop", "done"}
    => LET P == Len(col.prompt) IN
       /\ Len(col.X_rows) = col.t /\ Len(col.y_rows) = col.t
       /\ col.out_ids = col.prompt \o SubSeq(col.target, 1, col.t)
       /\ \A i \in 1..col.t :
              /\ col.X_rows[i].token = col.target[i]
              /\ col.y_rows[i].token = col.target[i]
              /\ col.X_rows[i].layers = col.k_eff
              /\ col.X_rows[i].ctx = col.prompt \o SubSeq(col.target, 1, i - 1)
              /\ col.y_rows[i].ctx = col.X_rows[i].ctx

\* two steps have been forced and the id forced last is not the one the model
\* itself prefers
C23_Witness ==
    /\ col.pc = "done" /\ col.t = 2
    /\ col.out_ids[Len(col.out_ids)] # Oracle(col.y_rows[2].ctx)

\* C29: a /calibrate request that does not succeed leaves STATE.cfg as it was; one
\* that succeeds sets layers, k and weights_path to what it passed to
\* fit_layer_weights and weighting to the override of the request, if it has one;
\* a /generate request leaves STATE.cfg as it was
C29_ConfigFrame ==
    srv.pc = "replied"
    => /\ srv.route = "generate" => srv.cfg = srv.cfg_before
       /\ (srv.route = "calibrate" /\ srv.resp.ok # Some(TRUE)) => srv.cfg = srv.cfg_before
       /\ (srv.route = "calibrate" /\ srv.resp.ok = Some(TRUE))
          => /\ srv.fit_args # None
             /\ srv.cfg.layers = srv.fit_args[1].layers
             /\ srv.cfg.k = srv.fit_args[1].k
             /\ srv.cfg.weights_path = srv.fit_args[1].out_path
             /\ srv.cfg.weighting = IF srv.req[1].weighting # None
                                    THEN srv.req[1].weighting[1]
                                    ELSE srv.cfg_before.weighting

\* a calibration has been refused, for want of usable items, by a server whose
\* configuration an earlier calibration has changed
C29_Witness ==
    /\ srv.pc = "replied" /\ srv.route = "calibrate"
    /\ srv.resp = Refused("No usable calibration items found.")
    /\ srv.req[1].layers = Some("all") /\ srv.req[1].weighting = Some("learned")
    /\ srv.cfg.k = 2 /\ srv.cfg.layers = "last_k" /\ srv.cfg.weighting = "uniform"

\* C30: once a /calibrate with override "learned" has succeeded, and until the
\* next successful /calibrate, a multi-layer /generate without a path override
\* succeeds with weighting_applied "learned", the layers the calibration chose,
\* and weights_path the configured path, which is the out_path of the calibration
C30_CalibrateThenGenerate ==
    (/\ srv.pc = "replied" /\ srv.route = "generate" /\ srv.learned_from # None
     /\ srv.req[1].mode = "sled" /\ srv.req[1].prompt # ""
     /\ srv.req[1].weights_path = None
     /\ srv.req[1].gen_args.kind \in {"absent", "budget"})
    => /\ srv.resp.ok = Some(TRUE)
       /\ srv.cfg.weights_path = srv.learned_from[1].out_path
       /\ srv.resp.data[1].meta.weighting_applied = "learned"
       /\ srv.resp.data[1].meta.chosen_indices = srv.learned_from[1].chosen
       /\ srv.resp.data[1].meta.weights_path = Some(srv.cfg.weights_path)

\* C27: whatever /calibrate and /generate requests are in flight together, at most
\* one of them is inside fit_layer_weights, the file a fit closes is the file it
\* opened, and what a /generate has read of STATE.cfg is STATE.cfg as it was at
\* one moment at which no update of it was half done
C27_CalibrationSerialized ==
    /\ \A r, o \in WebIds : (in_fit(web.reqs[r]) /\ in_fit(web.reqs[o])) => r = o
    /\ web.file.whole \/ \E r \in WebIds :
          next_step(web.reqs[r]) = step("fit", "savez_close") /\ web.file.writer = r
    /\ \A r \in WebIds :
          (web.reqs[r].body.route = "generate" /\ web.reqs[r].seen # NotRead)
          => /\ ~web.reqs[r].torn
             /\ \A key \in CfgKeys :
                   web.reqs[r].seen[key] \in {0 - 1, web.reqs[r].snap[key]}

\* a /generate has read all four keys of a configuration that one calibration set
\* while another calibration is suspended at its await
C27_Witness ==
    \E g, c, d \in WebIds :
        /\ web.reqs[g].body.route = "generate" /\ finished(web.reqs[g])
        /\ \A key \in CfgKeys : web.reqs[g].seen[key] = c
        /\ web.reqs[c].body.route = "calibrate" /\ finished(web.reqs[c])
        /\ web.reqs[d].body.route = "calibrate" /\ d # c /\ web.reqs[d].pc = 1

====
